---- MODULE Spec2Model ----
(***************************************************************************)
(* Model of the gateway request helpers of the integration-test context   *)
(* (apps/backend/__tests__/integration/utils/test-context.ts): the CSRF   *)
(* token cache (csrfToken / csrfCookie, fetchCsrfToken, getCsrfToken,     *)
(* clearCsrfToken) and the request pipeline graphqlRequest; and of the    *)
(* gateway's data source HmacRemoteGraphQLDataSource.willSendRequest      *)
(* (apps/backend/__tests__/integration/test-utils.ts), and of the HMAC    *)
(* signing helper generateHmacHeader of the test context; and of the      *)
(* region service RegionDomainService (syncAll, syncDataType, the sync    *)
(* handlers and getPropositions); and of the test harness (waitFor and    *)
(* globalSetup).                                                           *)
(*                                                                         *)
(* JavaScript runs one task at a time and a task is interrupted only at   *)
(* an await.  Every action below is the code between two suspension       *)
(* points of one graphqlRequest call (or one whole synchronous call of    *)
(* clearCsrfToken); concurrent calls interleave at these points.          *)
(* Strings are sequences of one-character strings so that the regular     *)
(* expression of fetchCsrfToken and String.includes are computed, not     *)
(* assumed.                                                                *)
(***************************************************************************)
EXTENDS Integers, Sequences, FiniteSets, TLC

\* ------------------------------------------------------------------ bounds
NCallers == 2        \* concurrent callers of graphqlRequest
MaxCalls == 2        \* graphqlRequest calls made one after the other (Spec)
MaxClears == 2       \* clearCsrfToken calls made by test code (Spec)
NInFlight == 2       \* subgraph requests in flight in one data source
MaxSigned == 2       \* calls of generateHmacHeader
NSyncRuns == 2       \* concurrent calls of syncDataType (SpecSyncRace)
MaxTake == 3         \* largest skip and take of getPropositions
MaxTimeout == 3      \* largest timeoutMs of waitFor, in clock ticks
MaxRounds == 2       \* polling rounds of globalSetup before maxWait has elapsed

Callers == 1..NCallers
Slots == 1..NInFlight

\* JavaScript null / undefined / '' of a string-valued expression, and an absent
\* list: the code tests such values only for truthiness
Null == <<>>
NoData == "none"         \* a body without data; a call without variables

\* ------------------------------------------------------------- strings
\* 'csrf-token=' as it appears in the regular expression and in the cookie template
CsrfCookiePrefix == <<"c","s","r","f","-","t","o","k","e","n","=">>
\* the literal 'CSRF' of errorBody.message?.includes('CSRF')
CsrfWord == <<"C","S","R","F">>

\* String.prototype.includes: sub occurs in s as a contiguous substring
Includes(s, sub) ==
    \E i \in 1..(Len(s) - Len(sub) + 1) : SubSeq(s, i, i + Len(sub) - 1) = sub

\* the positions at which /csrf-token=([^;]+)/ can match: the literal followed by
\* at least one character that is not ';'
MatchStarts(s) ==
    { i \in 1..Len(s) :
        /\ i + Len(CsrfCookiePrefix) <= Len(s)
        /\ SubSeq(s, i, i + Len(CsrfCookiePrefix) - 1) = CsrfCookiePrefix
        /\ s[i + Len(CsrfCookiePrefix)] # ";" }

Min(S) == CHOOSE x \in S : \A y \in S : x <= y

\* the end of the greedy group [^;]+ that starts at position from
RECURSIVE GroupEnd(_, _)
GroupEnd(s, from) ==
    IF from < Len(s) /\ s[from + 1] # ";" THEN GroupEnd(s, from + 1) ELSE from

\* variant of the regular expression: the group runs to the end of the value,
\* /csrf-token=(.+)/
CsrfMatchToEnd(setCookie) ==
    IF MatchStarts(setCookie) = {} THEN Null
    ELSE SubSeq(setCookie, Min(MatchStarts(setCookie)) + Len(CsrfCookiePrefix),
                Len(setCookie))

\* /csrf-token=([^;]+)/.exec(setCookie): Null when nothing matches, else group 1
\* of the leftmost match
CsrfMatch(setCookie) ==
    IF MatchStarts(setCookie) = {} THEN Null
    ELSE LET b == Min(MatchStarts(setCookie)) + Len(CsrfCookiePrefix)
         IN  SubSeq(setCookie, b, GroupEnd(setCookie, b))

\* ------------------------------------------------ what the gateway can answer
\* Set-Cookie header values of the bootstrap GET (Null: the header is absent)
SetCookieValues ==
    { Null,
      <<"s","i","d","=","1">>,
      CsrfCookiePrefix \o <<"a",";"," ","P","a","t","h","=","/">>,
      <<"s","=","1",";"," ">> \o CsrfCookiePrefix \o <<"b">> }

MsgCsrf == CsrfWord \o <<" ","b","a","d">>          \* 'CSRF bad'
MsgLower == <<"c","s","r","f"," ","b","a","d">>     \* 'csrf bad'
MsgAuth == <<"d","e","n","i","e","d">>              \* 'denied'

\* parsed JSON bodies: top-level message, GraphQL data and errors[].message
Body(message, data, errors) == [message |-> message, data |-> data, errors |-> errors]

PostResponses ==
    { [kind |-> "http", status |-> 200, body |-> Body(Null, "d1", Null)],
      [kind |-> "http", status |-> 200, body |-> Body(Null, NoData, <<MsgCsrf>>)],
      [kind |-> "http", status |-> 403, body |-> Body(MsgCsrf, NoData, Null)],
      [kind |-> "http", status |-> 403, body |-> Body(MsgAuth, NoData, Null)],
      [kind |-> "http", status |-> 403, body |-> Body(MsgLower, NoData, Null)],
      [kind |-> "http", status |-> 403, body |-> Body(Null, NoData, <<MsgCsrf>>)],
      [kind |-> "http", status |-> 500, body |-> Body(MsgCsrf, NoData, Null)] }

GetResponses == { [kind |-> "http", setCookie |-> c] : c \in SetCookieValues }

\* fetch rejects: the request failed at the network layer
NetworkFailure == [kind |-> "neterr"]
\* fetch has not settled yet
Pending == [kind |-> "pending"]

\* ------------------------------------------------ what a caller can ask
\* header objects are functions from header names to values
\* (a call without headers spreads nothing, like a call with {})
NoHeaders == [k \in {} |-> Null]
Hdr(k, v) == [x \in {k} |-> v]
BearerT1 == <<"B","e","a","r","e","r"," ","t","1">>
ApplicationJson == <<"j","s","o","n">>      \* stands for 'application/json'

ExtraHeaders ==
    { NoHeaders,
      Hdr("Authorization", BearerT1),
      Hdr("x-csrf-token", <<"z">>) }

Requests ==
    { [query |-> "q1", variables |-> NoData, headers |-> h] : h \in ExtraHeaders }
    \cup { [query |-> "q2", variables |-> "v1", headers |-> NoHeaders] }

VARIABLES
    csrfToken,     \* module variable csrfToken
    csrfCookie,    \* module variable csrfCookie
    pc,            \* pc[p]: where caller p's graphqlRequest call is suspended
    args,          \* args[p]: query, variables, headers of p's current call
    csrf,          \* csrf[p]: the local csrf / newCsrf of p's current call
    http,          \* http[p]: the fetches of p's current call, in order, with responses
    result,        \* result[p]: what p's current call returned or threw
    nCalls,        \* nCalls[p]: graphqlRequest calls p has started
    nClears,       \* clearCsrfToken calls made by test code
    started,       \* history: how p's suspended getCsrfToken call began
    last,          \* history: the latest getCsrfToken return or clearCsrfToken call
    hmacEnabled,   \* what this.hmacSigner.isEnabled() reports
    context,       \* context[i].user of in-flight subgraph request i
    request,       \* request[i].http of in-flight subgraph request i
    prepared,      \* prepared[i]: willSendRequest has run for request i
    handed,        \* history: request[i].http as it was handed to willSendRequest
    signerGave,    \* history: what signGraphQLRequest returned for request i
    hmacSecret,    \* module constant HMAC_SECRET (from the environment)
    hmacClientId,  \* module constant HMAC_CLIENT_ID (from the environment)
    signed,        \* history: the calls of generateHmacHeader with what they returned
    nSigned,       \* history: how many calls of generateHmacHeader were made
    stored,        \* stored[t]: the externalIds in the table of data type t
    run,           \* run[r]: the state of call r of syncAll / syncDataType
    table,         \* the proposition rows in the order of findAndCount
    page,          \* what the last getPropositions call was given and returned
    wait,          \* the state of the waitFor call
    setup          \* the state of the globalSetup call

\* the program's state, and the history the properties of getCsrfToken read
pvars == <<csrfToken, csrfCookie, pc, args, csrf, http, result, nCalls, nClears>>
hvars == <<started, last>>
\* the data source and its in-flight requests
ivars == <<hmacEnabled, context, request, prepared, handed, signerGave>>
\* the variables outside the token manager and the request pipeline
\* the signing helper: its configuration and the record of its calls
svars == <<hmacSecret, hmacClientId, signed, nSigned>>
\* the region service: its tables, its sync calls and its last page
yvars == <<stored, run, table, page>>
\* the test harness: waitFor and globalSetup
zvars == <<wait, setup>>
xvars == <<ivars, svars, yvars, zvars>>
vars == <<pvars, hvars, xvars>>

\* ------------------------------------------------------------ pure helpers
\* the object literal of the fetch headers: later keys (the caller's spread
\* headers) replace earlier ones
Spread(base, extra) ==
    [k \in DOMAIN base \cup DOMAIN extra |->
        IF k \in DOMAIN extra THEN extra[k] ELSE base[k]]

\* JSON.stringify({ query, variables }): an undefined member is left out
StringifyBody(query, variables) ==
    IF variables = NoData THEN [query |-> query]
    ELSE [query |-> query, variables |-> variables]

\* fetchCsrfToken's request
GetRequest ==
    [method |-> "GET", headers |-> Hdr("Content-Type", ApplicationJson),
     body |-> [k \in {} |-> Null], resp |-> Pending]

\* the headers of graphqlRequest's POST and of its retry
PostHeaders(pair, extra) ==
    Spread([k \in {"Content-Type", "Cookie", "x-csrf-token"} |->
              CASE k = "Content-Type" -> ApplicationJson
                [] k = "Cookie" -> pair.cookie
                [] k = "x-csrf-token" -> pair.token],
           extra)

\* graphqlRequest's POST and its retry
PostRequest(pair, a) ==
    [method |-> "POST", headers |-> PostHeaders(pair, a.headers),
     body |-> StringifyBody(a.query, a.variables), resp |-> Pending]

\* variant of fetchCsrfToken: the cookie is the whole Set-Cookie value
FetchCsrfTokenOutcomeRawCookie(resp) ==
    IF resp.kind = "neterr" THEN [threw |-> "NetworkError"]
    ELSE IF resp.setCookie = Null THEN [threw |-> "NoSetCookie"]
    ELSE IF CsrfMatch(resp.setCookie) = Null THEN [threw |-> "NoCsrfCookie"]
    ELSE [threw |-> "nothing",
          token |-> CsrfMatch(resp.setCookie),
          cookie |-> resp.setCookie]

\* fetchCsrfToken after its fetch settled with resp
FetchCsrfTokenOutcome(resp) ==
    IF resp.kind = "neterr" THEN [threw |-> "NetworkError"]
    ELSE IF resp.setCookie = Null THEN [threw |-> "NoSetCookie"]
    ELSE IF CsrfMatch(resp.setCookie) = Null THEN [threw |-> "NoCsrfCookie"]
    ELSE [threw |-> "nothing",
          token |-> CsrfMatch(resp.setCookie),
          cookie |-> CsrfCookiePrefix \o CsrfMatch(resp.setCookie)]

\* variants of getCsrfToken's test: every call fetches / no call fetches
CacheMissAlways(token, cookie) == TRUE
CacheMissNever(token, cookie) == FALSE

\* getCsrfToken's test !csrfToken || !csrfCookie
CacheMiss(token, cookie) == token = Null \/ cookie = Null

\* variants of clearCsrfToken: nothing is cleared / csrfCookie is not cleared
ClearedCacheKeepsPair(token, cookie) == [token |-> token, cookie |-> cookie]
ClearedCacheTokenOnly(token, cookie) == [token |-> Null, cookie |-> cookie]

\* clearCsrfToken's two assignments, as the new value of (csrfToken, csrfCookie)
ClearedCache(token, cookie) == [token |-> Null, cookie |-> Null]

\* variants of the retry test: every 403 is retried / the status is not looked at
IsCsrfErrorAny403(resp) == resp.status = 403
IsCsrfErrorAnyStatus(resp) ==
    resp.body.message # Null /\ Includes(resp.body.message, <<"C","S","R","F">>)

\* response.status === 403 && errorBody.message?.includes('CSRF')
IsCsrfError(resp) ==
    /\ resp.status = 403
    /\ resp.body.message # Null
    /\ Includes(resp.body.message, CsrfWord)

NoPair == [token |-> Null, cookie |-> Null]
NoResult == [kind |-> "none"]
Returned(body) == [kind |-> "returned", body |-> body]
Threw(e) == [kind |-> "threw", error |-> e]

SetResp(h, r) == [h EXCEPT ![Len(h)].resp = r]

\* ----------------------------------------------------------------- actions
\* The synchronous start of getCsrfToken for caller p, called when the cache holds
\* (token, cookie) and p's fetches so far are h: on a miss fetchCsrfToken sends its
\* GET and the call is suspended at waitPc; on a hit the cached pair is returned
\* and the caller resumes at nextPc.
GetCsrfTokenCall(p, token, cookie, h, waitPc, nextPc) ==
    IF CacheMiss(token, cookie)
    THEN /\ http' = [http EXCEPT ![p] = Append(h, GetRequest)]
         /\ pc' = [pc EXCEPT ![p] = waitPc]
         /\ csrf' = [csrf EXCEPT ![p] = NoPair]
    ELSE /\ http' = [http EXCEPT ![p] = h]
         /\ pc' = [pc EXCEPT ![p] = nextPc]
         /\ csrf' = [csrf EXCEPT ![p] = [token |-> token, cookie |-> cookie]]

\* graphqlRequest(query, variables, headers) is called: getCsrfToken runs up to its
\* first suspension
GraphqlRequest(p, a) ==
    /\ pc[p] \in {"idle", "done"}
    /\ nCalls' = [nCalls EXCEPT ![p] = @ + 1]
    /\ args' = [args EXCEPT ![p] = a]
    /\ result' = [result EXCEPT ![p] = NoResult]
    /\ GetCsrfTokenCall(p, csrfToken, csrfCookie, <<>>, "getCsrf", "post")
    /\ UNCHANGED <<csrfToken, csrfCookie, nClears>>

\* variant of getCsrfToken's resumption: a missing csrf-token cookie is
\* swallowed and the caller goes on with an empty pair
GetSettlesGoesOn(p, resp, nextPc) ==
    LET out == FetchCsrfTokenOutcome(resp) IN
    /\ http' = [http EXCEPT ![p] = SetResp(@, resp)]
    /\ IF out.threw = "NetworkError"
       THEN /\ pc' = [pc EXCEPT ![p] = "done"]
            /\ result' = [result EXCEPT ![p] = Threw(out.threw)]
            /\ UNCHANGED <<csrfToken, csrfCookie, csrf>>
       ELSE IF out.threw # "nothing"
       THEN /\ csrf' = [csrf EXCEPT ![p] = NoPair]
            /\ pc' = [pc EXCEPT ![p] = nextPc]
            /\ UNCHANGED <<csrfToken, csrfCookie, result>>
       ELSE /\ csrfToken' = out.token
            /\ csrfCookie' = out.cookie
            /\ csrf' = [csrf EXCEPT ![p] = [token |-> csrfToken', cookie |-> csrfCookie']]
            /\ pc' = [pc EXCEPT ![p] = nextPc]
            /\ UNCHANGED result
    /\ UNCHANGED <<args, nCalls, nClears>>

\* variant of getCsrfToken's resumption: the fetched pair is returned but not stored
GetSettlesStoresNothing(p, resp, nextPc) ==
    LET out == FetchCsrfTokenOutcome(resp) IN
    /\ http' = [http EXCEPT ![p] = SetResp(@, resp)]
    /\ IF out.threw # "nothing"
       THEN /\ pc' = [pc EXCEPT ![p] = "done"]
            /\ result' = [result EXCEPT ![p] = Threw(out.threw)]
            /\ UNCHANGED csrf
       ELSE /\ csrf' = [csrf EXCEPT ![p] = [token |-> out.token, cookie |-> out.cookie]]
            /\ pc' = [pc EXCEPT ![p] = nextPc]
            /\ UNCHANGED result
    /\ UNCHANGED <<csrfToken, csrfCookie, args, nCalls, nClears>>

\* the bootstrap GET of fetchCsrfToken settles with resp: fetchCsrfToken throws, or
\* getCsrfToken stores the pair and returns the cached pair
GetSettles(p, resp, nextPc) ==
    LET out == FetchCsrfTokenOutcome(resp) IN
    /\ http' = [http EXCEPT ![p] = SetResp(@, resp)]
    /\ IF out.threw # "nothing"
       THEN /\ pc' = [pc EXCEPT ![p] = "done"]
            /\ result' = [result EXCEPT ![p] = Threw(out.threw)]
            /\ UNCHANGED <<csrfToken, csrfCookie, csrf>>
       ELSE /\ csrfToken' = out.token
            /\ csrfCookie' = out.cookie
            /\ csrf' = [csrf EXCEPT ![p] = [token |-> csrfToken', cookie |-> csrfCookie']]
            /\ pc' = [pc EXCEPT ![p] = nextPc]
            /\ UNCHANGED result
    /\ UNCHANGED <<args, nCalls, nClears>>

\* getCsrfToken of the first attempt resumes
BootstrapSettles(p, resp) ==
    /\ pc[p] = "getCsrf"
    /\ GetSettles(p, resp, "post")

\* variant of the POST: it reads the module variables when it is sent instead of
\* the pair getCsrfToken returned
SendPostReadsCache(p) ==
    /\ pc[p] = "post"
    /\ http' = [http EXCEPT ![p] =
                  Append(@, PostRequest([token |-> csrfToken, cookie |-> csrfCookie],
                                        args[p]))]
    /\ pc' = [pc EXCEPT ![p] = "awaitPost"]
    /\ UNCHANGED <<csrfToken, csrfCookie, args, csrf, result, nCalls, nClears>>

\* the POST is sent with the pair getCsrfToken returned
SendPost(p) ==
    /\ pc[p] = "post"
    /\ http' = [http EXCEPT ![p] = Append(@, PostRequest(csrf[p], args[p]))]
    /\ pc' = [pc EXCEPT ![p] = "awaitPost"]
    /\ UNCHANGED <<csrfToken, csrfCookie, args, csrf, result, nCalls, nClears>>

\* variant of the POST's failure: the POST is sent again
PostFailsResends(p) ==
    /\ pc[p] = "awaitPost"
    /\ Len(http[p]) < 4
    /\ http' = [http EXCEPT ![p] = SetResp(@, NetworkFailure)]
    /\ pc' = [pc EXCEPT ![p] = "post"]
    /\ UNCHANGED <<csrfToken, csrfCookie, args, csrf, result, nCalls, nClears>>

\* variant of the POST's failure: the cached pair is dropped before the throw
PostFailsClears(p) ==
    /\ pc[p] = "awaitPost"
    /\ http' = [http EXCEPT ![p] = SetResp(@, NetworkFailure)]
    /\ pc' = [pc EXCEPT ![p] = "done"]
    /\ result' = [result EXCEPT ![p] = Threw("NetworkError")]
    /\ csrfToken' = Null
    /\ csrfCookie' = Null
    /\ UNCHANGED <<args, csrf, nCalls, nClears>>

\* the POST fails at the network layer: the await throws
PostFails(p) ==
    /\ pc[p] = "awaitPost"
    /\ http' = [http EXCEPT ![p] = SetResp(@, NetworkFailure)]
    /\ pc' = [pc EXCEPT ![p] = "done"]
    /\ result' = [result EXCEPT ![p] = Threw("NetworkError")]
    /\ UNCHANGED <<csrfToken, csrfCookie, args, csrf, nCalls, nClears>>

\* variant of the POST's answer: the body of a 403 is dropped and an empty
\* body is returned in its place
PostAnsweredHides403(p, resp) ==
    /\ pc[p] = "awaitPost"
    /\ ~IsCsrfError(resp)
    /\ http' = [http EXCEPT ![p] = SetResp(@, resp)]
    /\ pc' = [pc EXCEPT ![p] = "done"]
    /\ result' = [result EXCEPT ![p] =
                    IF resp.status = 403 THEN Returned(Body(Null, NoData, Null))
                    ELSE Returned(resp.body)]
    /\ UNCHANGED <<csrfToken, csrfCookie, args, csrf, nCalls, nClears>>

\* the POST is answered with resp, which is not a CSRF error: its body is
\* returned (return errorBody / return response.json())
PostAnswered(p, resp) ==
    /\ pc[p] = "awaitPost"
    /\ ~IsCsrfError(resp)
    /\ http' = [http EXCEPT ![p] = SetResp(@, resp)]
    /\ pc' = [pc EXCEPT ![p] = "done"]
    /\ result' = [result EXCEPT ![p] = Returned(resp.body)]
    /\ UNCHANGED <<csrfToken, csrfCookie, args, csrf, nCalls, nClears>>

\* the POST is answered with a CSRF error: clearCsrfToken(), then
\* getCsrfToken() runs up to its first suspension
PostRejectedCsrf(p, resp) ==
    /\ pc[p] = "awaitPost"
    /\ IsCsrfError(resp)
    /\ LET c == ClearedCache(csrfToken, csrfCookie) IN
       /\ csrfToken' = c.token
       /\ csrfCookie' = c.cookie
       /\ GetCsrfTokenCall(p, c.token, c.cookie, SetResp(http[p], resp),
                           "retryGetCsrf", "retryPost")
    /\ UNCHANGED <<args, result, nCalls, nClears>>

\* variant of the retry: when the new bootstrap is answered without a csrf-token
\* cookie, the pair of the first POST is put back and sent again
RetryBootstrapSettlesFallsBack(p, resp) ==
    /\ pc[p] = "retryGetCsrf"
    /\ IF FetchCsrfTokenOutcome(resp).threw \in { "nothing", "NetworkError" }
       THEN GetSettles(p, resp, "retryPost")
       ELSE LET old == http[p][Len(http[p]) - 1].headers IN
            /\ http' = [http EXCEPT ![p] = SetResp(@, resp)]
            /\ csrfToken' = old["x-csrf-token"]
            /\ csrfCookie' = old["Cookie"]
            /\ csrf' = [csrf EXCEPT ![p] = [token |-> csrfToken', cookie |-> csrfCookie']]
            /\ pc' = [pc EXCEPT ![p] = "retryPost"]
            /\ UNCHANGED <<args, result, nCalls, nClears>>

\* getCsrfToken of the retry resumes
RetryBootstrapSettles(p, resp) ==
    /\ pc[p] = "retryGetCsrf"
    /\ GetSettles(p, resp, "retryPost")

\* variant of the retry POST: it reads the module variables when it is sent
\* instead of newCsrf
SendRetryReadsCache(p) ==
    /\ pc[p] = "retryPost"
    /\ http' = [http EXCEPT ![p] =
                  Append(@, PostRequest([token |-> csrfToken, cookie |-> csrfCookie],
                                        args[p]))]
    /\ pc' = [pc EXCEPT ![p] = "awaitRetry"]
    /\ UNCHANGED <<csrfToken, csrfCookie, args, csrf, result, nCalls, nClears>>

\* variant of the retry POST: the caller's headers are not spread into it
SendRetryDropsHeaders(p) ==
    /\ pc[p] = "retryPost"
    /\ http' = [http EXCEPT ![p] =
                  Append(@, PostRequest(csrf[p], [args[p] EXCEPT !.headers = NoHeaders]))]
    /\ pc' = [pc EXCEPT ![p] = "awaitRetry"]
    /\ UNCHANGED <<csrfToken, csrfCookie, args, csrf, result, nCalls, nClears>>

\* the retry POST is sent with newCsrf
SendRetry(p) ==
    /\ pc[p] = "retryPost"
    /\ http' = [http EXCEPT ![p] = Append(@, PostRequest(csrf[p], args[p]))]
    /\ pc' = [pc EXCEPT ![p] = "awaitRetry"]
    /\ UNCHANGED <<csrfToken, csrfCookie, args, csrf, result, nCalls, nClears>>

\* the retry POST fails at the network layer
RetryFails(p) ==
    /\ pc[p] = "awaitRetry"
    /\ http' = [http EXCEPT ![p] = SetResp(@, NetworkFailure)]
    /\ pc' = [pc EXCEPT ![p] = "done"]
    /\ result' = [result EXCEPT ![p] = Threw("NetworkError")]
    /\ UNCHANGED <<csrfToken, csrfCookie, args, csrf, nCalls, nClears>>

\* variant of the retry's answer: a CSRF error is retried once more
RetryAnsweredRetriesAgain(p, resp) ==
    /\ pc[p] = "awaitRetry"
    /\ http' = [http EXCEPT ![p] = SetResp(@, resp)]
    /\ IF resp.status = 403 /\ Len(http[p]) < 6
       THEN /\ pc' = [pc EXCEPT ![p] = "retryPost"]
            /\ UNCHANGED result
       ELSE /\ pc' = [pc EXCEPT ![p] = "done"]
            /\ result' = [result EXCEPT ![p] = Returned(resp.body)]
    /\ UNCHANGED <<csrfToken, csrfCookie, args, csrf, nCalls, nClears>>

\* the retry POST is answered: return retryResponse.json(), whatever it is
RetryAnswered(p, resp) ==
    /\ pc[p] = "awaitRetry"
    /\ http' = [http EXCEPT ![p] = SetResp(@, resp)]
    /\ pc' = [pc EXCEPT ![p] = "done"]
    /\ result' = [result EXCEPT ![p] = Returned(resp.body)]
    /\ UNCHANGED <<csrfToken, csrfCookie, args, csrf, nCalls, nClears>>

\* the exported clearCsrfToken() is called by test code
ClearCsrfTokenCall ==
    /\ LET c == ClearedCache(csrfToken, csrfCookie) IN
       /\ csrfToken' = c.token
       /\ csrfCookie' = c.cookie
    /\ UNCHANGED <<pc, args, csrf, http, result, nCalls>>

\* test code calls the exported clearCsrfToken(), and the call is counted
ClearCsrfToken ==
    /\ nClears' = nClears + 1
    /\ ClearCsrfTokenCall

\* ---------------------------------------------------------------- history
\* The events of the token manager are the calls of clearCsrfToken and the returns
\* of getCsrfToken.  last is the latest event, with what the properties need of
\* the event before it; started[p] says how p's suspended getCsrfToken call began.
\*   after: the kind of the latest event when the getCsrfToken call began
\*   quiet: no event happened between the call's beginning and its return
\*   before, cache: the cache just before and just after the event
\*   prev:  kind, pair and before of the event before this one
Suspended == {"getCsrf", "retryGetCsrf"}
HasPair == {"post", "retryPost"}

NoEvent == [kind |-> "none", pair |-> NoPair, before |-> NoPair]
NotStarted == [after |-> "none", quiet |-> TRUE]
CacheNow == [token |-> csrfToken, cookie |-> csrfCookie]

\* this step called clearCsrfToken (from test code, or from p's CSRF error path)
Clears == nClears' # nClears \/ \E p \in Callers : pc[p] = "awaitPost" /\ pc'[p] # "done"
\* in this step p's getCsrfToken call began / returned
Begins(p) == pc[p] \notin Suspended /\ pc'[p] \in Suspended
Returns(p) == pc[p] \notin HasPair /\ pc'[p] \in HasPair

Summary(e) == [kind |-> e.kind, pair |-> e.pair, before |-> e.before]
ClearEvent == [kind |-> "clear", pair |-> NoPair, before |-> CacheNow,
               cache |-> CacheNow', prev |-> Summary(last)]
RetEvent(p, how, before) ==
    [kind |-> "ret", after |-> how.after, quiet |-> how.quiet, before |-> CacheNow,
     fetched |-> pc[p] \in Suspended, pair |-> csrf'[p],
     setCookie |-> IF pc[p] \in Suspended THEN http'[p][Len(http'[p])].resp.setCookie
                   ELSE Null,
     cache |-> CacheNow', prev |-> Summary(before)]

Observe ==
    LET before == IF Clears THEN ClearEvent ELSE last
        event == Clears \/ \E p \in Callers : Returns(p)
    IN  /\ last' = IF \E p \in Callers : Returns(p)
                   THEN LET p == CHOOSE p \in Callers : Returns(p)
                        IN  RetEvent(p, IF pc[p] \in Suspended THEN started[p]
                                        ELSE [after |-> before.kind, quiet |-> TRUE],
                                     before)
                   ELSE before
        /\ started' = [p \in Callers |->
                         IF Begins(p) THEN [after |-> before.kind, quiet |-> TRUE]
                         ELSE IF pc'[p] \notin Suspended THEN NotStarted
                         ELSE IF event THEN [started[p] EXCEPT !.quiet = FALSE]
                         ELSE started[p]]

\* ------------------------------------------------------------------- Init
\* no data source is in use
NoDataSource ==
    /\ hmacEnabled = FALSE
    /\ context = <<>>
    /\ request = <<>>
    /\ prepared = <<>>
    /\ handed = <<>>
    /\ signerGave = <<>>

\* generateHmacHeader has not been called; the configuration is the default one
NoSigning ==
    /\ hmacSecret = "integration-test-hmac-secret"
    /\ hmacClientId = "api-gateway"
    /\ signed = {}
    /\ nSigned = 0

\* the region service is not in use
NoRegionService ==
    /\ stored = <<>>
    /\ run = <<>>
    /\ table = <<>>
    /\ page = <<>>

\* the test harness is not in use
NoHarness ==
    /\ wait = <<>>
    /\ setup = <<>>

\* the test-context module after load
InitCsrf ==
    /\ csrfToken = Null
    /\ csrfCookie = Null
    /\ pc = [p \in Callers |-> "idle"]
    /\ args = [p \in Callers |-> CHOOSE a \in Requests : a.query = "q2"]
    /\ csrf = [p \in Callers |-> NoPair]
    /\ http = [p \in Callers |-> <<>>]
    /\ result = [p \in Callers |-> NoResult]
    /\ nCalls = [p \in Callers |-> 0]
    /\ nClears = 0
    /\ started = [p \in Callers |-> NotStarted]
    /\ last = NoEvent

Init == InitCsrf /\ NoDataSource /\ NoSigning /\ NoRegionService /\ NoHarness

\* --------------------------------------------------------- specifications
\* the gateway's answers to a bootstrap GET and to a POST
Gets == GetResponses \cup {NetworkFailure}
Posts == PostResponses

\* Spec: one test makes its calls one after the other (each awaited before the
\* next), with every request and every gateway answer of the sets above;
\* clearCsrfToken may be called at any time, also while a call is suspended.
MainCaller == CHOOSE p \in Callers : \A q \in Callers : p <= q

Next ==
    \/ \E a \in Requests :
          nCalls[MainCaller] < MaxCalls /\ GraphqlRequest(MainCaller, a) /\ Observe /\ UNCHANGED xvars
    \/ \E r \in Gets : BootstrapSettles(MainCaller, r) /\ Observe /\ UNCHANGED xvars
    \/ SendPost(MainCaller) /\ Observe /\ UNCHANGED xvars
    \/ PostFails(MainCaller) /\ Observe /\ UNCHANGED xvars
    \/ \E r \in Posts : PostAnswered(MainCaller, r) /\ Observe /\ UNCHANGED xvars
    \/ \E r \in Posts : PostRejectedCsrf(MainCaller, r) /\ Observe /\ UNCHANGED xvars
    \/ \E r \in Gets : RetryBootstrapSettles(MainCaller, r) /\ Observe /\ UNCHANGED xvars
    \/ SendRetry(MainCaller) /\ Observe /\ UNCHANGED xvars
    \/ RetryFails(MainCaller) /\ Observe /\ UNCHANGED xvars
    \/ \E r \in Posts : RetryAnswered(MainCaller, r) /\ Observe /\ UNCHANGED xvars
    \/ nClears < MaxClears /\ ClearCsrfToken /\ Observe /\ UNCHANGED xvars

Spec == Init /\ [][Next]_vars

\* SpecConcurrent: every caller makes one call; the calls run concurrently
\* (Promise.all over several graphqlRequest calls) and interleave at every await,
\* and a call may also begin after another has ended.  One request, and one gateway
\* answer of each class that the pipeline tells apart; the cache is cleared by the
\* calls' own CSRF error paths.  The history variables are not kept.
RaceRequests == { a \in Requests : a.query = "q2" }
RaceGets == { r \in GetResponses : CsrfMatch(r.setCookie) # Null } \cup {NetworkFailure}
RacePosts ==
    { r \in PostResponses :
        \/ r.status = 200 /\ r.body.data # NoData
        \/ r.status = 403 /\ r.body.message = MsgCsrf }

NextConcurrent ==
    \/ \E p \in Callers, a \in RaceRequests :
          pc[p] = "idle" /\ GraphqlRequest(p, a) /\ UNCHANGED <<hvars, xvars>>
    \/ \E p \in Callers, r \in RaceGets : BootstrapSettles(p, r) /\ UNCHANGED <<hvars, xvars>>
    \/ \E p \in Callers : SendPost(p) /\ UNCHANGED <<hvars, xvars>>
    \/ \E p \in Callers : PostFails(p) /\ UNCHANGED <<hvars, xvars>>
    \/ \E p \in Callers, r \in RacePosts : PostAnswered(p, r) /\ UNCHANGED <<hvars, xvars>>
    \/ \E p \in Callers, r \in RacePosts : PostRejectedCsrf(p, r) /\ UNCHANGED <<hvars, xvars>>
    \/ \E p \in Callers, r \in RaceGets : RetryBootstrapSettles(p, r) /\ UNCHANGED <<hvars, xvars>>
    \/ \E p \in Callers : SendRetry(p) /\ UNCHANGED <<hvars, xvars>>
    \/ \E p \in Callers : RetryFails(p) /\ UNCHANGED <<hvars, xvars>>
    \/ \E p \in Callers, r \in RacePosts : RetryAnswered(p, r) /\ UNCHANGED <<hvars, xvars>>

SpecConcurrent == Init /\ [][NextConcurrent]_vars

\* SpecRace: concurrent calls as in SpecConcurrent, with test code calling
\* clearCsrfToken at any point between their steps.  The gateway answers every
\* fetch: a bootstrap GET with one of two tokens, a POST with 200 or a CSRF 403.
\* The clearCsrfToken calls are not counted: there may be any number of them.
RaceTokens == { r \in GetResponses : CsrfMatch(r.setCookie) # Null }

NextRace ==
    \/ \E p \in Callers, a \in RaceRequests :
          pc[p] = "idle" /\ GraphqlRequest(p, a) /\ UNCHANGED <<hvars, xvars>>
    \/ \E p \in Callers, r \in RaceTokens : BootstrapSettles(p, r) /\ UNCHANGED <<hvars, xvars>>
    \/ \E p \in Callers : SendPost(p) /\ UNCHANGED <<hvars, xvars>>
    \/ \E p \in Callers, r \in RacePosts : PostAnswered(p, r) /\ UNCHANGED <<hvars, xvars>>
    \/ \E p \in Callers, r \in RacePosts : PostRejectedCsrf(p, r) /\ UNCHANGED <<hvars, xvars>>
    \/ \E p \in Callers, r \in RaceTokens : RetryBootstrapSettles(p, r) /\ UNCHANGED <<hvars, xvars>>
    \/ \E p \in Callers : SendRetry(p) /\ UNCHANGED <<hvars, xvars>>
    \/ \E p \in Callers, r \in RacePosts : RetryAnswered(p, r) /\ UNCHANGED <<hvars, xvars>>
    \/ ClearCsrfTokenCall /\ UNCHANGED <<nClears, hvars, xvars>>

SpecRace == Init /\ [][NextRace]_vars

\* SpecParse: one call on an empty cache, with the gateway answering the bootstrap
\* GET with every Set-Cookie value made of a lead, a csrf-token cookie value and a
\* tail; the POST is answered 200.
CookieLeads == { <<>>, <<"s","=","1",";"," ">>, <<"x">> }
CookieValues ==
    { <<>>, <<"a">>, <<"a","b","c","1","2","3">>, <<"a"," ","b">>, <<"a","=","b">>,
      <<"a",","," ","s","=","1">> }
CookieTails ==
    { <<>>, <<";">>, <<";"," ","P","a","t","h","=","/">>,
      <<";"," ">> \o CsrfCookiePrefix \o <<"z">> }
ParseSetCookies ==
    { l \o CsrfCookiePrefix \o v \o t :
        l \in CookieLeads, v \in CookieValues, t \in CookieTails }
ParseGets == { [kind |-> "http", setCookie |-> c] : c \in ParseSetCookies }
ParsePosts == { r \in PostResponses : r.status = 200 /\ r.body.data # NoData }

NextParse ==
    \/ \E a \in RaceRequests :
          pc[MainCaller] = "idle" /\ GraphqlRequest(MainCaller, a) /\ UNCHANGED <<hvars, xvars>>
    \/ \E r \in ParseGets : BootstrapSettles(MainCaller, r) /\ UNCHANGED <<hvars, xvars>>
    \/ SendPost(MainCaller) /\ UNCHANGED <<hvars, xvars>>
    \/ \E r \in ParsePosts : PostAnswered(MainCaller, r) /\ UNCHANGED <<hvars, xvars>>

SpecParse == Init /\ [][NextParse]_vars

\* ------------------------------------------- HmacRemoteGraphQLDataSource
\* Header names are written in lower case: Headers.set and Headers.get do not
\* tell 'X-HMAC-Auth' from 'x-hmac-auth'.  willSendRequest has no await, so a call
\* is one step, and the calls for the requests in flight happen in any order.
UserHeader == "user"
HmacAuthHeader == "x-hmac-auth"
ContentTypeHeader == "content-type"

\* context.user: absent (also an absent context), empty, or a user id
NoUser == "undefined"
ContextUsers == { NoUser, "", "u-1", "u-2" }

\* request.http.url: absent or empty, or the URL of a subgraph
NoUrl == ""
UsersUrl == "http://users:3001/graphql"
DocumentsUrl == "http://documents:3002/graphql"

\* what signGraphQLRequest(url) can return: nothing, or a header value for url
NoCredential == [kind |-> "none", url |-> NoUrl]
NotAsked == [kind |-> "notAsked", url |-> NoUrl]
CredentialFor(url) == [kind |-> "credential", url |-> url]
SignerReturns(url) == { NoCredential, CredentialFor(url) }

\* headers an outgoing request can carry when it is handed to willSendRequest
JsonOnly == Hdr(ContentTypeHeader, ApplicationJson)
WithUser == Spread(JsonOnly, Hdr(UserHeader, "u-9"))
WithCredential == Spread(JsonOnly, Hdr(HmacAuthHeader, CredentialFor("http://old/graphql")))

\* request.http of the requests the gateway hands to the data source
OutboundRequests ==
    { [method |-> "POST", url |-> u, headers |-> JsonOnly, body |-> "q1"] :
        u \in {NoUrl, UsersUrl, DocumentsUrl} }
    \cup { [method |-> "POST", url |-> UsersUrl, headers |-> h, body |-> "q2"] :
             h \in {WithUser, WithCredential} }
    \cup { [method |-> "GET", url |-> DocumentsUrl, headers |-> JsonOnly, body |-> "q2"] }

\* variant of Headers.set: the header list is replaced by the one header
HeadersSetOnly(h, k, v) == Hdr(k, v)

\* Headers.set(k, v)
HeadersSet(h, k, v) == [x \in DOMAIN h \cup {k} |-> IF x = k THEN v ELSE h[x]]

\* variant of the user forwarding: nothing is forwarded
ForwardUserNever(headers, user) == headers

\* if (context?.user) request.http?.headers.set('user', context.user)
ForwardUser(headers, user) ==
    IF user # NoUser /\ user # "" THEN HeadersSet(headers, UserHeader, user)
    ELSE headers

\* variants of the signing test: isEnabled() is not asked / nothing is ever signed
ShouldSignAlways(enabled, url) == url # NoUrl
ShouldSignNever(enabled, url) == FALSE

\* this.hmacSigner.isEnabled() && request.http?.url
ShouldSign(enabled, url) == enabled /\ url # NoUrl

\* if (hmacHeader) request.http?.headers.set('X-HMAC-Auth', hmacHeader)
AttachCredential(headers, hmacHeader) ==
    IF hmacHeader.kind = "credential"
    THEN HeadersSet(headers, HmacAuthHeader, hmacHeader)
    ELSE headers

\* variant of willSendRequest: the instance keeps the context and the URL of the
\* first request in flight and uses them for every request
WillSendRequestKeepsFirst(i, gave) ==
    LET first == CHOOSE s \in Slots : \A t \in Slots : s <= t IN
    /\ ~prepared[i]
    /\ LET sign == ShouldSign(hmacEnabled, request[first].url)
           hmacHeader == IF sign THEN CredentialFor(request[first].url) ELSE NotAsked
       IN  /\ gave = NoCredential
           /\ signerGave' = [signerGave EXCEPT ![i] = hmacHeader]
           /\ request' = [request EXCEPT ![i].headers =
                            AttachCredential(ForwardUser(@, context[first]), hmacHeader)]
    /\ prepared' = [prepared EXCEPT ![i] = TRUE]
    /\ UNCHANGED <<hmacEnabled, context, handed>>

\* willSendRequest({ request, context }) for the request in flight i; gave is what
\* signGraphQLRequest returns if it is called
WillSendRequest(i, gave) ==
    /\ ~prepared[i]
    /\ LET sign == ShouldSign(hmacEnabled, request[i].url)
           hmacHeader == IF sign THEN gave ELSE NotAsked
       IN  /\ gave \in SignerReturns(request[i].url)
           /\ sign \/ gave = NoCredential
           /\ signerGave' = [signerGave EXCEPT ![i] = hmacHeader]
           /\ request' = [request EXCEPT ![i].headers =
                            AttachCredential(ForwardUser(@, context[i]), hmacHeader)]
    /\ prepared' = [prepared EXCEPT ![i] = TRUE]
    /\ UNCHANGED <<hmacEnabled, context, handed>>

\* one data source instance, its signer enabled or not, with NInFlight requests
\* handed to it, each with its own context
InitDataSource ==
    /\ hmacEnabled \in BOOLEAN
    /\ context \in [Slots -> ContextUsers]
    /\ request \in [Slots -> OutboundRequests]
    /\ prepared = [i \in Slots |-> FALSE]
    /\ handed = request
    /\ signerGave = [i \in Slots |-> NotAsked]

InitInterceptor == InitCsrf /\ InitDataSource /\ NoSigning /\ NoRegionService /\ NoHarness

NextInterceptor ==
    \E i \in Slots : \E gave \in SignerReturns(request[i].url) :
        WillSendRequest(i, gave) /\ UNCHANGED <<pvars, hvars, svars, yvars, zvars>>

SpecInterceptor == InitInterceptor /\ [][NextInterceptor]_vars

\* ------------------------------------------------------ generateHmacHeader
\* the letters, for String.prototype.toLowerCase
UpperCase == <<"A","B","C","D","E","F","G","H","I","J","K","L","M",
               "N","O","P","Q","R","S","T","U","V","W","X","Y","Z">>
LowerCase == <<"a","b","c","d","e","f","g","h","i","j","k","l","m",
               "n","o","p","q","r","s","t","u","v","w","x","y","z">>

\* variant of toLowerCase: the method is signed as it is written
ToLowerCaseKeeps(s) == s

\* method.toLowerCase()
ToLowerCase(s) ==
    [i \in 1..Len(s) |->
        IF \E k \in DOMAIN UpperCase : UpperCase[k] = s[i]
        THEN LowerCase[CHOOSE k \in DOMAIN UpperCase : UpperCase[k] = s[i]]
        ELSE s[i]]

\* the literals of the template string and of the credentials object
ContentTypeLabel == <<"c","o","n","t","e","n","t","-","t","y","p","e",":"," ">>
CoveredHeaders == "@request-target,content-type"
Algorithm == "hmac-sha256"

\* `${method.toLowerCase()} ${path}\ncontent-type: ${contentType}`
SignatureString(method, path, contentType) ==
    ToLowerCase(method) \o <<" ">> \o path \o <<"\n">> \o ContentTypeLabel \o contentType

\* variant of the signature: the secret is not used as the key
HmacUnkeyed(secret, message) == [key |-> "none", message |-> message]

\* crypto.createHmac('sha256', secret).update(message).digest('base64'), as an
\* ideal MAC: the signature is determined by the key and the message, and
\* different keys or messages give different signatures
HmacSha256Base64(secret, message) == [key |-> secret, message |-> message]

\* variant of the credentials object: the username is the default client id,
\* whatever is configured
StringifyCredentialsDefaultUser(username, signature) ==
    << <<"username", "api-gateway">>, <<"algorithm", Algorithm>>,
       <<"headers", CoveredHeaders>>, <<"signature", signature>> >>

\* JSON.stringify(credentials): the members in the order of the object literal
StringifyCredentials(username, signature) ==
    << <<"username", username>>, <<"algorithm", Algorithm>>,
       <<"headers", CoveredHeaders>>, <<"signature", signature>> >>

\* a contentType argument: left out (the default applies) or given
Omitted == [given |-> FALSE, value |-> <<>>]
Given(v) == [given |-> TRUE, value |-> v]
TextPlain == <<"t","e","x","t">>            \* stands for 'text/plain'
ContentTypeOf(arg) == IF arg.given THEN arg.value ELSE ApplicationJson

\* generateHmacHeader(method, path, contentType) under the configuration
\* (secret, clientId): `HMAC ${JSON.stringify(credentials)}`
GenerateHmacHeaderValue(secret, clientId, method, path, contentType) ==
    [scheme |-> "HMAC",
     json |-> StringifyCredentials(
                  clientId,
                  HmacSha256Base64(secret,
                      SignatureString(method, path, ContentTypeOf(contentType))))]

\* what generateHmacHeader is called with
Methods == { <<"P","O","S","T">>, <<"p","o","s","t">>, <<"P","o","s","t">>,
             <<"G","E","T">> }
Paths == { <<"/","g","r","a","p","h","q","l">>, <<"/">> }
ContentTypes == { Omitted, Given(ApplicationJson), Given(TextPlain) }
Secrets == { "integration-test-hmac-secret", "secret-2" }
ClientIds == { "api-gateway", "gateway-2" }

\* the downstream verifier holding secret and knowing the clients known: it reads
\* the credential of the header, recomputes the base string for the covered
\* headers the credential declares from the request it received, computes its
\* own signature and compares
VerifierAccepts(secret, known, header, method, path, contentType) ==
    /\ header.scheme = "HMAC"
    /\ header.json[1][2] \in known
    /\ header.json[2][2] = Algorithm
    /\ header.json[3][2] = CoveredHeaders
    /\ header.json[4][2] =
          HmacSha256Base64(secret, SignatureString(method, path, contentType))

\* one call of generateHmacHeader; the call and its return value are recorded
GenerateHmacHeader(method, path, contentType) ==
    /\ nSigned' = nSigned + 1
    /\ signed' = signed \cup
          { [method |-> method, path |-> path, contentType |-> contentType,
             header |-> GenerateHmacHeaderValue(hmacSecret, hmacClientId,
                                                method, path, contentType)] }
    /\ UNCHANGED <<hmacSecret, hmacClientId>>

\* the module is loaded with some secret and client id in the environment
InitSigning ==
    /\ hmacSecret \in Secrets
    /\ hmacClientId \in ClientIds
    /\ signed = {}
    /\ nSigned = 0

InitSigner == InitCsrf /\ NoDataSource /\ InitSigning /\ NoRegionService /\ NoHarness

NextSigner ==
    \E method \in Methods, path \in Paths, contentType \in ContentTypes :
        /\ nSigned < MaxSigned
        /\ GenerateHmacHeader(method, path, contentType)
        /\ UNCHANGED <<pvars, hvars, ivars, yvars, zvars>>

SpecSigner == InitSigner /\ [][NextSigner]_vars

\* ------------------------------------------------------ RegionDomainService
\* A sync call is suspended at the await of the provider fetch, of the query for
\* the existing externalIds and of the upsert; each action is the code between
\* two of them.  The database answers a query and applies an upsert in the step in
\* which the await settles.
Runs == 1..NSyncRuns
DataTypes == <<"propositions", "meetings", "representatives">>

\* what the provider's fetch can return: items, given by their externalIds
FetchedLists ==
    { <<>>, <<"e1">>, <<"e1", "e2">>, <<"e2", "e2">>, <<"e1", "e2", "e1">> }
\* what getSupportedDataTypes() can return
SupportedTypes == { DataTypes, <<"representatives", "propositions">> }

FetchError == "Network error"
DbError == "Query failed"

IdsOf(list) == { list[i] : i \in DOMAIN list }
\* propositions.filter((p) => ids.has(p.externalId)).length and
\* propositions.filter((p) => !ids.has(p.externalId)).length
CountIn(list, ids) == Cardinality({ i \in DOMAIN list : list[i] \in ids })
CountNotIn(list, ids) == Cardinality({ i \in DOMAIN list : list[i] \notin ids })

\* variant of the counting: externalIds are counted, not items
CountsByFirst(list, existing) ==
    [processed |-> Len(list),
     created |-> Cardinality(IdsOf(list) \ existing),
     updated |-> Cardinality(IdsOf(list) \cap existing)]

\* the handler's return value { processed, created, updated }
Counts(list, existing) ==
    [processed |-> Len(list),
     created |-> CountNotIn(list, existing),
     updated |-> CountIn(list, existing)]

\* the SyncResult of syncDataType, with the history of the handler's call:
\* fetched list, query result, table before the upsert, database calls
Synced(t, list, existing, before, ops) ==
    LET c == Counts(list, existing) IN
    [dataType |-> t, itemsProcessed |-> c.processed, itemsCreated |-> c.created,
     itemsUpdated |-> c.updated, errors |-> <<>>,
     fetched |-> list, existing |-> existing, before |-> before, ops |-> ops]

\* variant of syncAll's catch block: the failed type is left out of the results
FailedLeftOut(t, message, ops) == <<>>

\* the SyncResult syncAll pushes in its catch block
Failed(t, message, ops) ==
    << [dataType |-> t, itemsProcessed |-> 0, itemsCreated |-> 0, itemsUpdated |-> 0,
        errors |-> <<message>>,
        fetched |-> <<>>, existing |-> {}, before |-> {}, ops |-> ops] >>

\* a call of the database made by a handler
DbCall(op, items) == [op |-> op, items |-> items]

IdleRun == [pc |-> "idle", mode |-> "none", types |-> <<>>, todo |-> <<>>,
            fetched |-> <<>>, existing |-> {}, ops |-> <<>>,
            results |-> <<>>, threw |-> "nothing"]

\* the call goes on after the handler of the current type has settled with the
\* results so far: syncAll calls the handler of the next type or returns;
\* syncDataType returns
GoOn(r, results) ==
    IF run[r].mode = "all" /\ Len(run[r].todo) > 1
    THEN [run[r] EXCEPT !.pc = "fetch", !.todo = Tail(@), !.results = results,
                        !.fetched = <<>>, !.existing = {}, !.ops = <<>>]
    ELSE [run[r] EXCEPT !.pc = "done", !.results = results]

\* an await of the handler rejects with message: syncAll catches and goes on,
\* syncDataType rejects
Rejects(r, message) ==
    IF run[r].mode = "all"
    THEN GoOn(r, run[r].results \o Failed(Head(run[r].todo), message, run[r].ops))
    ELSE [run[r] EXCEPT !.pc = "done", !.threw = message]

\* syncAll() is called: the handler of the first supported type calls the provider
SyncAll(r, types) ==
    /\ run[r].pc = "idle"
    /\ run' = [run EXCEPT ![r] =
                 IF types = <<>> THEN [IdleRun EXCEPT !.pc = "done", !.mode = "all"]
                 ELSE [IdleRun EXCEPT !.pc = "fetch", !.mode = "all",
                                      !.types = types, !.todo = types]]
    /\ UNCHANGED <<stored, table, page>>

\* syncDataType(t) is called
SyncDataType(r, t) ==
    /\ run[r].pc = "idle"
    /\ run' = [run EXCEPT ![r] = [IdleRun EXCEPT !.pc = "fetch", !.mode = "one",
                                                 !.types = <<t>>, !.todo = <<t>>]]
    /\ UNCHANGED <<stored, table, page>>

\* variant of the handler without the check for an empty list
FetchReturnsNoEmptyCheck(r, list) ==
    /\ run[r].pc = "fetch"
    /\ run' = [run EXCEPT ![r].pc = "query", ![r].fetched = list,
                          ![r].ops = Append(@, DbCall("getMany", list))]
    /\ UNCHANGED <<stored, table, page>>

\* the provider's fetch returns list: an empty list ends the handler, any other
\* list makes it query the existing externalIds
FetchReturns(r, list) ==
    /\ run[r].pc = "fetch"
    /\ run' = [run EXCEPT ![r] =
                 IF Len(list) = 0
                 THEN GoOn(r, Append(run[r].results,
                                     Synced(Head(run[r].todo), list, {}, {}, run[r].ops)))
                 ELSE [run[r] EXCEPT !.pc = "query", !.fetched = list,
                                     !.ops = Append(@, DbCall("getMany", list))]]
    /\ UNCHANGED <<stored, table, page>>

FetchFails(r) ==
    /\ run[r].pc = "fetch"
    /\ run' = [run EXCEPT ![r] = Rejects(r, FetchError)]
    /\ UNCHANGED <<stored, table, page>>

\* getMany() returns the stored records with one of the fetched externalIds; the
\* handler calls upsert with all fetched items
QueryReturns(r) ==
    /\ run[r].pc = "query"
    /\ run' = [run EXCEPT ![r].pc = "upsert",
                          ![r].existing = stored[Head(run[r].todo)]
                                             \cap IdsOf(run[r].fetched),
                          ![r].ops = Append(@, DbCall("upsert", run[r].fetched))]
    /\ UNCHANGED <<stored, table, page>>

QueryFails(r) ==
    /\ run[r].pc = "query"
    /\ run' = [run EXCEPT ![r] = Rejects(r, DbError)]
    /\ UNCHANGED <<stored, table, page>>

\* upsert() returns: the fetched items are stored, the handler counts and returns,
\* and syncDataType returns its SyncResult
UpsertReturns(r) ==
    LET t == Head(run[r].todo) IN
    /\ run[r].pc = "upsert"
    /\ stored' = [stored EXCEPT ![t] = @ \cup IdsOf(run[r].fetched)]
    /\ run' = [run EXCEPT ![r] =
                 GoOn(r, Append(run[r].results,
                                Synced(t, run[r].fetched, run[r].existing, stored[t],
                                       run[r].ops)))]
    /\ UNCHANGED <<table, page>>

UpsertFails(r) ==
    /\ run[r].pc = "upsert"
    /\ run' = [run EXCEPT ![r] = Rejects(r, DbError)]
    /\ UNCHANGED <<stored, table, page>>

\* the tables hold some externalIds; no call has been made
InitRegionService ==
    /\ stored \in [IdsOf(DataTypes) -> {{}, {"e1"}}]
    /\ run = [r \in Runs |-> IdleRun]
    /\ table = <<>>
    /\ page = <<>>

InitSync == InitCsrf /\ NoDataSource /\ NoSigning /\ InitRegionService /\ NoHarness

\* SpecSync: one call of syncAll or of syncDataType
MainRun == CHOOSE r \in Runs : \A q \in Runs : r <= q

NextSync ==
    \/ \E types \in SupportedTypes :
          SyncAll(MainRun, types) /\ UNCHANGED <<pvars, hvars, ivars, svars, zvars>>
    \/ \E t \in IdsOf(DataTypes) :
          SyncDataType(MainRun, t) /\ UNCHANGED <<pvars, hvars, ivars, svars, zvars>>
    \/ \E list \in FetchedLists :
          FetchReturns(MainRun, list) /\ UNCHANGED <<pvars, hvars, ivars, svars, zvars>>
    \/ FetchFails(MainRun) /\ UNCHANGED <<pvars, hvars, ivars, svars, zvars>>
    \/ QueryReturns(MainRun) /\ UNCHANGED <<pvars, hvars, ivars, svars, zvars>>
    \/ QueryFails(MainRun) /\ UNCHANGED <<pvars, hvars, ivars, svars, zvars>>
    \/ UpsertReturns(MainRun) /\ UNCHANGED <<pvars, hvars, ivars, svars, zvars>>
    \/ UpsertFails(MainRun) /\ UNCHANGED <<pvars, hvars, ivars, svars, zvars>>

SpecSync == InitSync /\ [][NextSync]_vars

\* SpecSyncRace: NSyncRuns calls of syncDataType whose awaits interleave
\* the calls interfere only through the table of one data type
RaceTypes == { "propositions" }

NextSyncRace ==
    \/ \E r \in Runs, t \in RaceTypes :
          SyncDataType(r, t) /\ UNCHANGED <<pvars, hvars, ivars, svars, zvars>>
    \/ \E r \in Runs, list \in FetchedLists :
          FetchReturns(r, list) /\ UNCHANGED <<pvars, hvars, ivars, svars, zvars>>
    \/ \E r \in Runs : FetchFails(r) /\ UNCHANGED <<pvars, hvars, ivars, svars, zvars>>
    \/ \E r \in Runs : QueryReturns(r) /\ UNCHANGED <<pvars, hvars, ivars, svars, zvars>>
    \/ \E r \in Runs : QueryFails(r) /\ UNCHANGED <<pvars, hvars, ivars, svars, zvars>>
    \/ \E r \in Runs : UpsertReturns(r) /\ UNCHANGED <<pvars, hvars, ivars, svars, zvars>>
    \/ \E r \in Runs : UpsertFails(r) /\ UNCHANGED <<pvars, hvars, ivars, svars, zvars>>

SpecSyncRace == InitSync /\ [][NextSyncRace]_vars

\* the proposition table a behaviour starts with: rows in the order
\* { electionDate: 'DESC', createdAt: 'DESC' }
Tables == { [i \in 1..n |-> i] : n \in 0..(2 * MaxTake) }

\* propositionRepo.findAndCount({ order, skip, take })
FindAndCount(rows, skip, take) ==
    [items |-> SubSeq(rows, skip + 1, Min({ Len(rows), skip + take })),
     total |-> Len(rows)]

\* variant of slice that keeps every item
SliceKeepsAll(items, end) == items

\* items.slice(0, end), end >= 0
Slice(items, end) == SubSeq(items, 1, Min({ end, Len(items) }))

NoPage == [skip |-> 0, take |-> 0, asked |-> 0, got |-> <<>>,
           items |-> <<>>, total |-> 0, hasMore |-> FALSE, calls |-> 0]

\* getPropositions(skip, take); the repository answers in the step in which
\* the await settles
GetPropositions(skip, take) ==
    LET found == FindAndCount(table, skip, take + 1) IN
    /\ page' = [skip |-> skip, take |-> take, asked |-> take + 1, got |-> found.items,
                items |-> Slice(found.items, take), total |-> found.total,
                hasMore |-> Len(found.items) > take, calls |-> 1]
    /\ UNCHANGED <<stored, run, table>>

InitPage ==
    /\ stored = <<>>
    /\ run = <<>>
    /\ table \in Tables
    /\ page = NoPage

InitPagination == InitCsrf /\ NoDataSource /\ NoSigning /\ InitPage /\ NoHarness

NextPagination ==
    \E skip \in 0..MaxTake, take \in 0..MaxTake :
        GetPropositions(skip, take) /\ UNCHANGED <<pvars, hvars, ivars, svars, zvars>>

SpecPagination == InitPagination /\ [][NextPagination]_vars

\* ------------------------------------------------------------------ waitFor
\* Time is counted in ticks of the clock Date.now() reads.  elapsed is
\* Date.now() - startTime at the latest step of the call; a step that resumes
\* the call after an await is given the time d the await took.
\* what the condition's promise can do
ConditionOutcomes == { "true", "false", "rejects" }
ConditionFailed == "condition failed"
NotMet(timeoutMs) == <<"Condition not met within ", timeoutMs, "ms">>
\* what waitFor can be asked: timeoutMs and intervalMs
Timeouts == 0..MaxTimeout
Intervals == { 1, 2 }
\* how long an evaluation of the condition can take / how late a timer can fire
Durations == { 0, 1 }

IdleWait == [pc |-> "idle", timeoutMs |-> 0, intervalMs |-> 0, elapsed |-> 0,
             evaluations |-> 0, inFlight |-> 0, lastValue |-> "none",
             error |-> <<>>]

\* the test of the while loop at elapsed, and what follows it without
\* suspension: the condition is called, or the Error is thrown
WaitLoop(w, elapsed) ==
    IF elapsed < w.timeoutMs
    THEN [w EXCEPT !.pc = "condition", !.elapsed = elapsed,
                   !.evaluations = @ + 1, !.inFlight = @ + 1]
    ELSE [w EXCEPT !.pc = "threw", !.elapsed = elapsed, !.error = NotMet(w.timeoutMs)]

\* waitFor(condition, { timeoutMs, intervalMs }) is called; d ticks pass between
\* the clock read of startTime and the clock read of the first test
WaitFor(timeoutMs, intervalMs, d) ==
    /\ wait.pc = "idle"
    /\ wait' = WaitLoop([IdleWait EXCEPT !.timeoutMs = timeoutMs,
                                         !.intervalMs = intervalMs], d)
    /\ UNCHANGED setup

\* await condition() settles after d ticks: a true value returns, a false value
\* starts the timer, a rejection leaves waitFor
ConditionSettles(outcome, d) ==
    /\ wait.pc = "condition"
    /\ wait' = [wait EXCEPT !.inFlight = @ - 1,
                            !.elapsed = @ + d,
                            !.lastValue = outcome,
                            !.pc = CASE outcome = "true" -> "returned"
                                     [] outcome = "false" -> "sleep"
                                     [] outcome = "rejects" -> "threw",
                            !.error = IF outcome = "rejects" THEN <<ConditionFailed>>
                                      ELSE @]
    /\ UNCHANGED setup

\* the timer of intervalMs fires, d ticks late, and the loop goes round
TimerFires(d) ==
    /\ wait.pc = "sleep"
    /\ wait' = WaitLoop(wait, wait.elapsed + wait.intervalMs + d)
    /\ UNCHANGED setup

InitWaitFor ==
    /\ wait = IdleWait
    /\ setup = <<>>

InitWait == InitCsrf /\ NoDataSource /\ NoSigning /\ NoRegionService /\ InitWaitFor

NextWait ==
    \/ \E timeoutMs \in Timeouts, intervalMs \in Intervals, d \in Durations :
          WaitFor(timeoutMs, intervalMs, d) /\ UNCHANGED <<pvars, hvars, ivars, svars, yvars>>
    \/ \E outcome \in ConditionOutcomes, d \in Durations :
          ConditionSettles(outcome, d) /\ UNCHANGED <<pvars, hvars, ivars, svars, yvars>>
    \/ \E d \in Durations :
          TimerFires(d) /\ UNCHANGED <<pvars, hvars, ivars, svars, yvars>>

SpecWait == InitWait /\ [][NextWait]_vars

\* -------------------------------------------------------------- globalSetup
\* The clock is the environment's: each test of the polling loop is told
\* whether maxWait has elapsed since startTime.  It has not at the first test,
\* which follows the read of startTime without suspension, and it has at the
\* latest after MaxRounds rounds.
ServiceConfigs ==
    << [name |-> "users", required |-> TRUE],
       [name |-> "documents", required |-> TRUE],
       [name |-> "knowledge", required |-> TRUE],
       [name |-> "region", required |-> TRUE],
       [name |-> "api", required |-> TRUE] >>
\* services.filter((s) => s.required), by name
RequiredServices ==
    { ServiceConfigs[i].name : i \in { j \in DOMAIN ServiceConfigs : ServiceConfigs[j].required } }

\* what fetch(`${service.url}/health`) can do
HealthOutcomes == { "ok", "notOk", "rejects" }
\* checkService: response.ok, or false when fetch rejects
CheckService(outcome) == outcome = "ok"

ComposeError == "Integration tests require docker-compose services"
BackendError == "Backend services not running"

IdleSetup == [pc |-> "idle", rounds |-> 0, ready |-> {}, earlier |-> {},
              error |-> "none", missing |-> {}]

\* the test of the while loop: a polling round starts, or the final check does
SetupLoop(s, expired) ==
    IF expired THEN [s EXCEPT !.pc = "final"]
    ELSE [s EXCEPT !.pc = "round", !.rounds = @ + 1]

\* globalSetup() is called: the docker compose check (skipped inside Docker),
\* then the first test of the loop
GlobalSetup(inDocker, composeUp) ==
    /\ setup.pc = "idle"
    /\ setup' = IF ~inDocker /\ ~composeUp
                THEN [IdleSetup EXCEPT !.pc = "threw", !.error = ComposeError]
                ELSE SetupLoop(IdleSetup, FALSE)
    /\ UNCHANGED wait

\* variant of the round: a service that was ready in an earlier round counts
RoundSettlesCountsEarlier(health) ==
    LET ready == { s \in RequiredServices : CheckService(health[s]) } IN
    /\ setup.pc = "round"
    /\ setup' = IF ready \cup setup.earlier = RequiredServices
                THEN [setup EXCEPT !.pc = "returned", !.ready = ready]
                ELSE [setup EXCEPT !.pc = "sleep", !.ready = ready,
                                   !.earlier = @ \cup ready]
    /\ UNCHANGED wait

\* Promise.all of the round's health checks settles: return when every service
\* is ready, else start the timer
RoundSettles(health) ==
    LET ready == { s \in RequiredServices : CheckService(health[s]) } IN
    /\ setup.pc = "round"
    /\ setup' = IF \A s \in RequiredServices : s \in ready
                THEN [setup EXCEPT !.pc = "returned", !.ready = ready]
                ELSE [setup EXCEPT !.pc = "sleep", !.ready = ready,
                                   !.earlier = @ \cup ready]
    /\ UNCHANGED wait

\* the timer fires and the loop goes round
SleepEnds(expired) ==
    /\ setup.pc = "sleep"
    /\ expired \/ setup.rounds < MaxRounds
    /\ setup' = SetupLoop(setup, expired)
    /\ UNCHANGED wait

\* Promise.all of the final health checks settles: the Error is thrown
FinalSettles(health) ==
    LET ready == { s \in RequiredServices : CheckService(health[s]) } IN
    /\ setup.pc = "final"
    /\ setup' = [setup EXCEPT !.pc = "threw", !.error = BackendError,
                              !.ready = ready,
                              !.missing = RequiredServices \ ready]
    /\ UNCHANGED wait

InitGlobalSetup ==
    /\ wait = <<>>
    /\ setup = IdleSetup

InitSetup == InitCsrf /\ NoDataSource /\ NoSigning /\ NoRegionService /\ InitGlobalSetup

NextSetup ==
    \/ \E inDocker \in BOOLEAN, composeUp \in BOOLEAN :
          GlobalSetup(inDocker, composeUp) /\ UNCHANGED <<pvars, hvars, ivars, svars, yvars>>
    \/ \E health \in [RequiredServices -> HealthOutcomes] :
          RoundSettles(health) /\ UNCHANGED <<pvars, hvars, ivars, svars, yvars>>
    \/ \E expired \in BOOLEAN :
          SleepEnds(expired) /\ UNCHANGED <<pvars, hvars, ivars, svars, yvars>>
    \/ \E health \in [RequiredServices -> HealthOutcomes] :
          FinalSettles(health) /\ UNCHANGED <<pvars, hvars, ivars, svars, yvars>>

SpecSetup == InitSetup /\ [][NextSetup]_vars

\* ------------------------------------------------------------- properties
\* what the properties read of a call
IsPost(e) == e.method = "POST"
IsGet(e) == e.method = "GET"
Answered(e) == e.resp.kind = "http"
PostsOf(p) == SelectSeq(http[p], IsPost)
GetsOf(p) == SelectSeq(http[p], IsGet)
\* the call of p began with a populated cache: its first fetch is the POST
BeganCached(p) == http[p] # <<>> /\ IsPost(http[p][1])
\* the error message of a body contains 'CSRF'
SaysCsrf(body) == body.message # Null /\ Includes(body.message, <<"C","S","R","F">>)
\* a CSRF-class 403
Csrf403(e) ==
    IsPost(e) /\ Answered(e) /\ e.resp.status = 403 /\ SaysCsrf(e.resp.body)
\* the pair a POST carries, read from its headers
Carried(e) == [token |-> e.headers["x-csrf-token"], cookie |-> e.headers["Cookie"]]
\* pair is what a successful bootstrap takes from the Set-Cookie value sc
TakenFrom(pair, sc) ==
    /\ pair.token # Null
    /\ pair.cookie = CsrfCookiePrefix \o pair.token
    /\ Includes(sc, pair.cookie)
Ended(p) == pc[p] = "done"

\* C1 as claimed: a call that began with a cached pair, whose first POST got a
\* CSRF-class 403 and whose second POST got a 200, made exactly 2 HTTP calls and
\* returned the second body.
C1_TwoHttpCalls ==
    \A p \in Callers :
        ( /\ Ended(p) /\ BeganCached(p)
          /\ Csrf403(http[p][1])
          /\ Len(PostsOf(p)) = 2
          /\ Answered(PostsOf(p)[2]) /\ PostsOf(p)[2].resp.status = 200 )
        => /\ Len(http[p]) = 2
           /\ result[p] = Returned(PostsOf(p)[2].resp.body)

\* C1 amended: such a call made exactly 2 POSTs with exactly one bootstrap GET
\* between them, 3 HTTP calls in all, and returned the body of the second POST.
C1_TwoPostsOneBootstrap ==
    \A p \in Callers :
        ( /\ Ended(p) /\ BeganCached(p)
          /\ Csrf403(http[p][1])
          /\ Len(PostsOf(p)) = 2
          /\ Answered(PostsOf(p)[2]) /\ PostsOf(p)[2].resp.status = 200 )
        => /\ Len(http[p]) = 3
           /\ IsGet(http[p][2]) /\ IsPost(http[p][3])
           /\ result[p] = Returned(http[p][3].resp.body)

\* C1 as a whole: a cached pair and a CSRF-class 403 on the first POST lead to the
\* bootstrap GET and, once it succeeded, to the second POST.
C1_RetryOnce ==
    /\ C1_TwoPostsOneBootstrap
    /\ \A p \in Callers :
          (BeganCached(p) /\ Csrf403(http[p][1]))
          => /\ Len(http[p]) >= 2 /\ IsGet(http[p][2])
             /\ pc[p] \in {"retryGetCsrf", "retryPost", "awaitRetry", "done"}
             /\ Len(http[p]) <= 3

C1_Witness ==
    \E p \in Callers :
        /\ Ended(p) /\ BeganCached(p) /\ Csrf403(http[p][1])
        /\ Len(http[p]) = 3 /\ Answered(http[p][3]) /\ http[p][3].resp.status = 200
        /\ result[p] = Returned(http[p][3].resp.body)

\* C2: under every interleaving of concurrent calls, a call sends at most 2 POSTs;
\* once its second POST is settled the call has ended, and a CSRF-class 403 on the
\* second POST is what the call returned (no third POST follows it).
C2_BoundedRetry ==
    \A p \in Callers :
        /\ Len(PostsOf(p)) <= 2
        /\ Len(GetsOf(p)) <= 2
        /\ (Len(PostsOf(p)) = 2 /\ PostsOf(p)[2].resp.kind # "pending")
           => /\ Ended(p)
              /\ IsPost(http[p][Len(http[p])])
              /\ Csrf403(PostsOf(p)[2]) => result[p] = Returned(PostsOf(p)[2].resp.body)

C2_Witness ==
    \E p \in Callers, q \in Callers :
        /\ p # q /\ http[q] # <<>>
        /\ Ended(p) /\ Len(PostsOf(p)) = 2
        /\ Csrf403(PostsOf(p)[1]) /\ Csrf403(PostsOf(p)[2])
        /\ result[p] = Returned(PostsOf(p)[2].resp.body)

\* C3 as claimed: every POST sent carries Cookie 'csrf-token=<t>' and x-csrf-token
\* '<t>' with one and the same token t, whatever extra headers the caller gave.
C3_DoubleSubmit ==
    \A p \in Callers : \A i \in 1..Len(http[p]) :
        IsPost(http[p][i])
        => /\ http[p][i].headers["x-csrf-token"] # Null
           /\ http[p][i].headers["Cookie"]
                = CsrfCookiePrefix \o http[p][i].headers["x-csrf-token"]

\* C4: a call that began with a cached pair and whose POST got a 403 that is not
\* CSRF-class made exactly 1 HTTP call and returned that body.
C4_NonCsrf403NotRetried ==
    \A p \in Callers :
        ( /\ BeganCached(p) /\ Answered(http[p][1])
          /\ http[p][1].resp.status = 403 /\ ~SaysCsrf(http[p][1].resp.body) )
        => /\ Ended(p)
           /\ Len(http[p]) = 1
           /\ result[p] = Returned(http[p][1].resp.body)

C4_Witness ==
    \E p \in Callers :
        /\ BeganCached(p) /\ Answered(http[p][1])
        /\ http[p][1].resp.status = 403 /\ ~SaysCsrf(http[p][1].resp.body)
        /\ Ended(p) /\ result[p] = Returned(http[p][1].resp.body)

\* C5: a POST answered with a status other than 403 is the last fetch of its call,
\* and the call returned that body as it is, also when the body mentions CSRF.
C5_Non403PassedThrough ==
    \A p \in Callers : \A i \in 1..Len(http[p]) :
        (IsPost(http[p][i]) /\ Answered(http[p][i]) /\ http[p][i].resp.status # 403)
        => /\ i = Len(http[p])
           /\ Ended(p)
           /\ result[p] = Returned(http[p][i].resp.body)

C5_Witness ==
    \E p \in Callers :
        /\ Ended(p) /\ Len(PostsOf(p)) = 1
        /\ Answered(PostsOf(p)[1]) /\ PostsOf(p)[1].resp.status = 500
        /\ SaysCsrf(PostsOf(p)[1].resp.body)
        /\ result[p] = Returned(PostsOf(p)[1].resp.body)

\* C6: a fetch (bootstrap GET or POST) that failed at the network layer is the last
\* fetch of its call, and the call failed with that error.
C6_TransportFailureNotRetried ==
    \A p \in Callers : \A i \in 1..Len(http[p]) :
        http[p][i].resp.kind = "neterr"
        => /\ i = Len(http[p])
           /\ Ended(p)
           /\ result[p] = Threw("NetworkError")

C6_Witness ==
    \E p \in Callers :
        /\ Ended(p) /\ result[p] = Threw("NetworkError")
        /\ Len(http[p]) = 1 /\ IsPost(http[p][1]) /\ http[p][1].resp.kind = "neterr"

\* C7: when a getCsrfToken call returns, began after the return of the call before
\* it and nothing happened in between (no clearCsrfToken, no other return), it
\* performed no bootstrap GET and returned the pair the call before it returned.
C7_CacheHit ==
    (last.kind = "ret" /\ last.prev.kind = "ret" /\ last.quiet)
    => /\ ~last.fetched
       /\ last.pair = last.prev.pair
       /\ last.pair # NoPair

C7_Witness ==
    /\ last.kind = "ret" /\ last.prev.kind = "ret" /\ last.quiet
    /\ ~last.fetched /\ last.pair = last.prev.pair /\ last.pair # NoPair
    /\ nCalls[MainCaller] = 2 /\ nClears = 0

\* the calls of all callers have had no CSRF-class 403, so nothing was invalidated
NoInvalidation ==
    \A p \in Callers : \A i \in 1..Len(http[p]) : ~Csrf403(http[p][i])
\* the POSTs and the GETs of all calls, each as <<caller, position>>
AllPosts ==
    UNION { { <<p, i>> : i \in { j \in DOMAIN http[p] : IsPost(http[p][j]) } } :
            p \in Callers }
AllGets ==
    UNION { { <<p, i>> : i \in { j \in DOMAIN http[p] : IsGet(http[p][j]) } } :
            p \in Callers }

\* C8 as claimed: as long as nothing is invalidated, the concurrent calls perform
\* one bootstrap GET between them and all send the identical pair.
C8_SingleBootstrap ==
    NoInvalidation
    => /\ Cardinality(AllGets) <= 1
       /\ \A x \in AllPosts, y \in AllPosts :
             Carried(http[x[1]][x[2]]) = Carried(http[y[1]][y[2]])

\* C8 amended: the pair is created lazily but per call: a POST that follows a
\* bootstrap GET of its own call carries the pair taken from that GET's answer,
\* and the POST of a call that began with a populated cache (no GET of its own)
\* carries a pair taken from the answer to another call's bootstrap GET.
C8_LazyPerCall ==
    \A p \in Callers : \A i \in 1..Len(http[p]) :
        IsPost(http[p][i])
        => IF i > 1
           THEN /\ IsGet(http[p][i - 1]) /\ Answered(http[p][i - 1])
                /\ TakenFrom(Carried(http[p][i]), http[p][i - 1].resp.setCookie)
           ELSE \E x \in AllGets :
                   /\ x[1] # p /\ Answered(http[x[1]][x[2]])
                   /\ TakenFrom(Carried(http[p][i]), http[x[1]][x[2]].resp.setCookie)

\* two calls began on the empty cache, each made its own bootstrap GET and they
\* sent different pairs, with nothing invalidated
C8_Witness ==
    \E p \in Callers, q \in Callers :
        /\ p # q /\ NoInvalidation
        /\ Len(http[p]) >= 2 /\ IsGet(http[p][1]) /\ IsPost(http[p][2])
        /\ Len(http[q]) >= 2 /\ IsGet(http[q][1]) /\ IsPost(http[q][2])
        /\ Carried(http[p][2]) # Carried(http[q][2])

\* C9: right after a clearCsrfToken call the cache is empty, whether it held a pair
\* before or not; a clearCsrfToken call right after another leaves the cache as
\* the first left it.
C9_ClearIdempotent ==
    last.kind = "clear"
    => /\ last.cache = NoPair
       /\ last.prev.kind = "clear" => last.cache = last.before

\* a clearCsrfToken call on a populated cache, followed at once by another
C9_Witness ==
    /\ last.kind = "clear" /\ last.prev.kind = "clear"
    /\ last.prev.before # NoPair
    /\ last.before = NoPair /\ last.cache = NoPair
    /\ CacheNow = NoPair

\* C10: a getCsrfToken call that begins right after a clearCsrfToken call sends a
\* bootstrap GET; when it returns, it has fetched, the pair it returns is the one
\* taken from that GET's Set-Cookie, and the cache holds that pair.
C10_RefetchAfterClear ==
    /\ \A p \in Callers :
          (pc[p] \in Suspended /\ started[p].after = "clear")
          => /\ IsGet(http[p][Len(http[p])])
             /\ http[p][Len(http[p])].resp.kind = "pending"
    /\ (last.kind = "ret" /\ last.after = "clear")
       => /\ last.fetched
          /\ TakenFrom(last.pair, last.setCookie)
          /\ last.cache = last.pair

C10_Witness ==
    /\ last.kind = "ret" /\ last.after = "clear" /\ last.fetched
    /\ last.before = NoPair
    /\ TakenFrom(last.pair, last.setCookie)
    /\ CacheNow = last.pair

\* ---- C11
\* the answer to a bootstrap GET carries no Set-Cookie header, or one without a
\* csrf-token cookie
LacksCsrfCookie(e) ==
    /\ IsGet(e)
    /\ Answered(e)
    /\ (e.resp.setCookie = Null \/ ~Includes(e.resp.setCookie, CsrfCookiePrefix))

\* what the bootstrap failure leaves behind: the call has ended by throwing the
\* error of fetchCsrfToken, the failed GET is the last fetch of the call (no
\* second bootstrap, no POST after it), and the cache is empty
FailedFatally(p, i) ==
    /\ Ended(p)
    /\ result[p].kind = "threw"
    /\ result[p].error =
          (IF http[p][i].resp.setCookie = Null THEN "NoSetCookie" ELSE "NoCsrfCookie")
    /\ i = Len(http[p])
    /\ CacheNow = NoPair

\* C11 as stated: when the bootstrap GET is answered without a csrf-token cookie,
\* getCsrfToken fails, the cache stays empty, no second bootstrap is attempted, and
\* the graphqlRequest call fails without having sent any POST
C11_FailsWithoutAnyPost ==
    \A p \in Callers : \A i \in DOMAIN http[p] :
        LacksCsrfCookie(http[p][i]) => FailedFatally(p, i) /\ PostsOf(p) = <<>>

\* C11 amended: when a bootstrap GET is answered without a csrf-token cookie,
\* getCsrfToken fails, the cache stays empty, and the graphqlRequest call fails
\* without any further fetch: no second bootstrap and no POST after the failed GET
\* (a call whose re-bootstrap fails has already sent its first POST)
C11_BootstrapFailureFatal ==
    \A p \in Callers : \A i \in DOMAIN http[p] :
        LacksCsrfCookie(http[p][i]) =>
            /\ FailedFatally(p, i)
            /\ \A j \in DOMAIN http[p] : IsPost(http[p][j]) => j < i /\ Csrf403(http[p][j])

\* a first bootstrap answered with a Set-Cookie that has no csrf-token cookie has
\* ended the call
C11_Witness ==
    /\ Len(http[MainCaller]) = 1
    /\ LacksCsrfCookie(http[MainCaller][1])
    /\ http[MainCaller][1].resp.setCookie # Null
    /\ Ended(MainCaller)

\* ---- C12
\* 'csrf-token=' stands at position i of s
NameAt(s, i) ==
    /\ i + Len(CsrfCookiePrefix) - 1 <= Len(s)
    /\ SubSeq(s, i, i + Len(CsrfCookiePrefix) - 1) = CsrfCookiePrefix
\* s[i..j] is 'csrf-token=<v>' with v not empty and free of ';', followed by ';'
\* or by the end of s, and no csrf-token cookie with a value stands before it
CookieAt(s, i, j) ==
    /\ NameAt(s, i)
    /\ i + Len(CsrfCookiePrefix) <= j
    /\ j <= Len(s)
    /\ \A k \in (i + Len(CsrfCookiePrefix))..j : s[k] # ";"
    /\ (j = Len(s) \/ s[j + 1] = ";")
    /\ \A h \in 1..(i - 1) :
          NameAt(s, h) =>
              h + Len(CsrfCookiePrefix) > Len(s) \/ s[h + Len(CsrfCookiePrefix)] = ";"
ValueAt(s, i, j) == SubSeq(s, i + Len(CsrfCookiePrefix), j)

\* C12: when the Set-Cookie value of the bootstrap answer contains
\* 'csrf-token=<v>' followed by ';' or the end of the value (v the first such
\* value that is not empty), the bootstrap succeeds with token = v and
\* cookie = 'csrf-token=' + v: getCsrfToken returns and caches that pair and the
\* POST carries it
C12_BootstrapParsing ==
    \A p \in Callers : \A n \in DOMAIN http[p] :
        LET e == http[p][n] IN
        (IsGet(e) /\ Answered(e)) =>
            \A i, j \in 1..Len(e.resp.setCookie) :
                CookieAt(e.resp.setCookie, i, j) =>
                    LET v == ValueAt(e.resp.setCookie, i, j)
                        pair == [token |-> v, cookie |-> CsrfCookiePrefix \o v]
                    IN  /\ result[p].kind # "threw"
                        /\ csrf[p] = pair
                        /\ CacheNow = pair
                        /\ \A k \in DOMAIN http[p] :
                              IsPost(http[p][k]) => Carried(http[p][k]) = pair

\* the bootstrap was answered 'csrf-token=abc123; Path=/' and the POST has been sent
C12_Witness ==
    /\ Len(http[MainCaller]) = 2
    /\ IsGet(http[MainCaller][1])
    /\ http[MainCaller][1].resp.setCookie =
          CsrfCookiePrefix \o <<"a","b","c","1","2","3",";"," ","P","a","t","h","=","/">>
    /\ IsPost(http[MainCaller][2])
    /\ http[MainCaller][2].headers["x-csrf-token"] = <<"a","b","c","1","2","3">>

\* ---- C13
\* the pair comes, token and cookie, from the answer to one bootstrap GET of some call
FromOneBootstrap(pair) ==
    \E x \in AllGets :
        LET g == http[x[1]][x[2]] IN
        /\ Answered(g)
        /\ g.resp.setCookie # Null
        /\ TakenFrom(pair, g.resp.setCookie)

\* C13: in every interleaving of concurrent graphqlRequest calls and
\* clearCsrfToken calls, every POST carries a token and a cookie that both come
\* from one and the same successful bootstrap response (never an empty, half-written
\* or mixed pair), and no call makes more than one retry: at most two POSTs and
\* two bootstrap GETs, however the cache is invalidated around it
C13_RacesKeepPairs ==
    \A p \in Callers :
        /\ \A i \in DOMAIN http[p] :
              IsPost(http[p][i]) => FromOneBootstrap(Carried(http[p][i]))
        /\ Len(PostsOf(p)) <= 2
        /\ Len(GetsOf(p)) <= 2

\* test code cleared the cache after caller p's bootstrap: p has sent its POST with
\* the pair of its own bootstrap while the cache is empty and no call has had a
\* CSRF failure; another caller q then made a bootstrap of its own
C13_Witness ==
    \E p \in Callers, q \in Callers :
        /\ p # q
        /\ NoInvalidation
        /\ Len(http[p]) = 2 /\ IsGet(http[p][1]) /\ IsPost(http[p][2])
        /\ Len(http[q]) = 1 /\ IsGet(http[q][1]) /\ ~Answered(http[q][1])
        /\ pc[p] = "done" /\ result[p].kind = "returned"
        /\ CacheNow = NoPair

\* ---- C14
\* header k is the same in h1 and h2: absent in both, or present with one value
SameHeader(h1, h2, k) ==
    /\ k \in DOMAIN h1 <=> k \in DOMAIN h2
    /\ k \in DOMAIN h1 => h1[k] = h2[k]

\* C14: when the signer reports itself disabled, willSendRequest sets no
\* X-HMAC-Auth header, for every request and every context: the signer is not
\* asked for a credential and the request leaves with the X-HMAC-Auth header it
\* was handed in with (none, unless one was there already)
C14_FailOpen ==
    ~hmacEnabled =>
        \A i \in Slots :
            prepared[i] =>
                /\ signerGave[i] = NotAsked
                /\ SameHeader(request[i].headers, handed[i].headers, HmacAuthHeader)

\* with the signer disabled, all requests have been prepared, one of them a POST
\* to a subgraph URL for a context with a user, and it carries no X-HMAC-Auth
C14_Witness ==
    /\ ~hmacEnabled
    /\ \A i \in Slots : prepared[i]
    /\ \E i \in Slots :
          /\ request[i].url = UsersUrl
          /\ context[i] = "u-1"
          /\ HmacAuthHeader \notin DOMAIN request[i].headers

\* ---- C15
\* C15 as stated: when the signer reports itself enabled, the request leaves
\* willSendRequest carrying the credential for its URL in the X-HMAC-Auth header
C15_EnabledAlwaysSigns ==
    hmacEnabled =>
        \A i \in Slots :
            prepared[i] =>
                /\ HmacAuthHeader \in DOMAIN request[i].headers
                /\ request[i].headers[HmacAuthHeader] = CredentialFor(request[i].url)

\* C15 amended: when the signer reports itself enabled and the request has a URL,
\* willSendRequest asks the signer for a credential for that URL (the method is
\* not passed to it) and, when the signer returns one, the request leaves carrying
\* it in the X-HMAC-Auth header; a request without URL, or for which the signer
\* returns nothing, leaves with the X-HMAC-Auth header it was handed in with
C15_SignsRequestsWithUrl ==
    hmacEnabled =>
        \A i \in Slots :
            prepared[i] =>
                IF request[i].url = NoUrl
                THEN /\ signerGave[i] = NotAsked
                     /\ SameHeader(request[i].headers, handed[i].headers, HmacAuthHeader)
                ELSE /\ signerGave[i] \in SignerReturns(request[i].url)
                     /\ IF signerGave[i].kind = "credential"
                        THEN /\ HmacAuthHeader \in DOMAIN request[i].headers
                             /\ request[i].headers[HmacAuthHeader] = signerGave[i]
                        ELSE SameHeader(request[i].headers, handed[i].headers,
                                        HmacAuthHeader)

\* with the signer enabled, a GET to the documents subgraph has left willSendRequest
\* carrying the credential the signer returned for that URL
C15_Witness ==
    /\ hmacEnabled
    /\ \E i \in Slots :
          /\ prepared[i]
          /\ request[i].method = "GET"
          /\ HmacAuthHeader \in DOMAIN request[i].headers
          /\ request[i].headers[HmacAuthHeader] = CredentialFor(DocumentsUrl)

\* ---- C16
\* the context carries a user id (context.user is a non-empty string)
HasUser(i) == context[i] # NoUser /\ context[i] # ""

\* C16: when the context carries a user id u the request leaves willSendRequest
\* with header user = u; when it carries none, willSendRequest sets no user
\* header: the header is as it was handed in
C16_UserForwarding ==
    \A i \in Slots :
        prepared[i] =>
            IF HasUser(i)
            THEN /\ UserHeader \in DOMAIN request[i].headers
                 /\ request[i].headers[UserHeader] = context[i]
            ELSE SameHeader(request[i].headers, handed[i].headers, UserHeader)

\* two prepared requests: one for user u-1, which carries user = u-1, and one for a
\* context without user, which carries no user header
C16_Witness ==
    \E i \in Slots, j \in Slots :
        /\ prepared[i] /\ context[i] = "u-1"
        /\ request[i].headers[UserHeader] = "u-1"
        /\ prepared[j] /\ context[j] = NoUser
        /\ UserHeader \notin DOMAIN request[j].headers

\* ---- C17
\* C17: whatever headers the outgoing request is handed in with, a request
\* prepared for a context without user leaves willSendRequest with no user header
C17_NoUserNoHeader ==
    \A i \in Slots :
        (prepared[i] /\ ~HasUser(i)) => UserHeader \notin DOMAIN request[i].headers

\* ---- C18
\* C18: willSendRequest changes nothing but the user and X-HMAC-Auth headers: the
\* request's body, method and URL, and every other header, are after the call what
\* they were when the request was handed in
C18_OnlyHeadersChange ==
    \A i \in Slots :
        /\ request[i].body = handed[i].body
        /\ request[i].method = handed[i].method
        /\ request[i].url = handed[i].url
        /\ \A k \in (DOMAIN request[i].headers \cup DOMAIN handed[i].headers)
                        \ {UserHeader, HmacAuthHeader} :
              SameHeader(request[i].headers, handed[i].headers, k)

\* a prepared request that gained both headers and kept its content-type, body,
\* method and URL
C18_Witness ==
    \E i \in Slots :
        /\ prepared[i]
        /\ handed[i].headers = JsonOnly
        /\ DOMAIN request[i].headers = {ContentTypeHeader, UserHeader, HmacAuthHeader}
        /\ request[i].headers[ContentTypeHeader] = ApplicationJson
        /\ request[i].method = "GET"

\* ---- C19
\* request i left willSendRequest with what its own context and its own URL give:
\* the user of its context, and a credential only if it is the one for its URL
PreparedFromOwn(i) ==
    /\ HasUser(i) => /\ UserHeader \in DOMAIN request[i].headers
                     /\ request[i].headers[UserHeader] = context[i]
    /\ signerGave[i].kind = "credential" =>
          /\ signerGave[i].url = request[i].url
          /\ HmacAuthHeader \in DOMAIN request[i].headers
          /\ request[i].headers[HmacAuthHeader] = CredentialFor(request[i].url)
    /\ (hmacEnabled /\ request[i].url # NoUrl) => signerGave[i] # NotAsked

\* C19: the data source keeps no state from one call to the next: when one
\* instance prepares several requests in flight, in any order, each request's
\* user header is the user of its own context and its X-HMAC-Auth header is the
\* credential for its own URL, whatever the other requests and contexts are
C19_NoPerCallState ==
    \A i \in Slots, j \in Slots :
        (i # j /\ prepared[i] /\ prepared[j]) => PreparedFromOwn(i) /\ PreparedFromOwn(j)

\* two requests in flight for different users and different subgraph URLs have both
\* been prepared, and each carries its own user and the credential for its own URL
C19_Witness ==
    \E i \in Slots, j \in Slots :
        /\ prepared[i] /\ prepared[j]
        /\ context[i] = "u-1" /\ context[j] = "u-2"
        /\ request[i].url = UsersUrl /\ request[j].url = DocumentsUrl
        /\ request[i].headers[UserHeader] = "u-1"
        /\ request[j].headers[UserHeader] = "u-2"
        /\ HmacAuthHeader \in DOMAIN request[i].headers
        /\ HmacAuthHeader \in DOMAIN request[j].headers
        /\ request[i].headers[HmacAuthHeader] = CredentialFor(UsersUrl)
        /\ request[j].headers[HmacAuthHeader] = CredentialFor(DocumentsUrl)

\* ---- C20
\* the signature member of a returned header, and the string that was signed
SignatureOf(header) == header.json[4][2]
\* a and b are the same letter, in whatever case
SameLetter(a, b) ==
    \/ a = b
    \/ \E k \in DOMAIN UpperCase :
          {a, b} \subseteq {UpperCase[k], LowerCase[k]}
\* m1 and m2 differ at most in letter case
SameButCase(m1, m2) ==
    /\ Len(m1) = Len(m2)
    /\ \A i \in 1..Len(m1) : SameLetter(m1[i], m2[i])
\* s has no upper-case letter
AllLower(s) == \A i \in 1..Len(s) : \A k \in DOMAIN UpperCase : s[i] # UpperCase[k]

\* C20: under one secret and one client id, two calls with the same path and
\* content type and with methods that are equal or differ only in letter case
\* return the same header and so the same signature; and the signed string is
\* '<lowercased method> <path>\ncontent-type: <contentType>'
C20_DeterministicCanonical ==
    /\ \A x \in signed, y \in signed :
          (/\ SameButCase(x.method, y.method)
           /\ x.path = y.path
           /\ ContentTypeOf(x.contentType) = ContentTypeOf(y.contentType))
          => /\ x.header = y.header
             /\ SignatureOf(x.header) = SignatureOf(y.header)
    /\ \A x \in signed :
          LET base == SignatureOf(x.header).message
              n == Len(x.method)
          IN  /\ Len(base) > n
              /\ SameButCase(SubSeq(base, 1, n), x.method)
              /\ AllLower(SubSeq(base, 1, n))
              /\ SubSeq(base, n + 1, Len(base)) =
                    <<" ">> \o x.path \o <<"\n">> \o ContentTypeLabel
                    \o ContentTypeOf(x.contentType)

\* 'POST' and 'post' have both been signed for /graphql, one call leaving the
\* content type out and the other naming the default, and the signed string is
\* 'post /graphql\ncontent-type: ' followed by the default content type
C20_Witness ==
    \E x \in signed, y \in signed :
        /\ x.method = <<"P","O","S","T">> /\ y.method = <<"p","o","s","t">>
        /\ x.path = <<"/","g","r","a","p","h","q","l">> /\ y.path = x.path
        /\ x.contentType = Omitted /\ y.contentType = Given(ApplicationJson)
        /\ SignatureOf(x.header).message =
              <<"p","o","s","t"," ","/","g","r","a","p","h","q","l","\n">>
              \o ContentTypeLabel \o ApplicationJson

LinesOf(s) ==
    LET cuts == { i \in 1..Len(s) : s[i] = "\n" }
        starts == {1} \cup { i + 1 : i \in cuts }
    IN  { SubSeq(s, b, Min({ c \in cuts \cup {Len(s) + 1} : c >= b }) - 1) : b \in starts }

\* C22: every header generateHmacHeader returns is 'HMAC ' followed by the JSON of
\* an object with members username, algorithm, headers, signature, in which
\* algorithm is 'hmac-sha256', headers is '@request-target,content-type' and
\* username is the configured client id; and the signed string has exactly the
\* two components that list names: the request target (method and path) and the
\* content-type line
C22_CredentialForm ==
    \A x \in signed :
        /\ x.header.scheme = "HMAC"
        /\ Len(x.header.json) = 4
        /\ x.header.json[1] = <<"username", hmacClientId>>
        /\ x.header.json[2] = <<"algorithm", "hmac-sha256">>
        /\ x.header.json[3] = <<"headers", "@request-target,content-type">>
        /\ x.header.json[4][1] = "signature"
        /\ LET base == SignatureOf(x.header).message IN
           /\ Cardinality(LinesOf(base)) = 2
           /\ ToLowerCase(x.method) \o <<" ">> \o x.path \in LinesOf(base)
           /\ <<"c","o","n","t","e","n","t","-","t","y","p","e",":"," ">>
                 \o ContentTypeOf(x.contentType) \in LinesOf(base)

\* a header has been returned under the client id 'gateway-2' for a call that
\* names the content type 'text/plain'
C22_Witness ==
    /\ hmacClientId = "gateway-2"
    /\ \E x \in signed :
          /\ x.contentType = Given(TextPlain)
          /\ x.header.json[1][2] = "gateway-2"

\* the SyncResults a call has produced so far
ResultsOf(r) == { run[r].results[i] : i \in DOMAIN run[r].results }
AllResults == UNION { ResultsOf(r) : r \in DOMAIN run }
Repeats(list) == \E i, j \in DOMAIN list : i # j /\ list[i] = list[j]

\* C23: every SyncResult that syncDataType or syncAll returns with an empty
\* errors list has itemsProcessed = itemsCreated + itemsUpdated, whatever list was
\* fetched (repeated externalIds included) and whatever externalIds were stored.
C23_ProcessedIsCreatedPlusUpdated ==
    \A s \in AllResults :
        s.errors = <<>> => s.itemsProcessed = s.itemsCreated + s.itemsUpdated

\* a sync returned without error for a list that repeats an externalId
C23_Witness ==
    \E s \in AllResults :
        /\ s.errors = <<>>
        /\ Repeats(s.fetched)
        /\ s.itemsProcessed = 2
        /\ s.itemsCreated = 2

\* the calls of syncAll that have returned
ReturnedAll == { r \in DOMAIN run : run[r].mode = "all" /\ run[r].pc = "done" }
IsFailure(s) ==
    /\ s.itemsProcessed = 0 /\ s.itemsCreated = 0 /\ s.itemsUpdated = 0
    /\ \/ s.errors = <<FetchError>> /\ s.ops = <<>>
       \/ s.errors = <<DbError>> /\ s.ops # <<>>

\* C24: syncAll returns exactly one SyncResult per supported data type, in the
\* provider's order; the result of a type whose sync failed has 0 processed,
\* created and updated items and an errors list holding the failure's message,
\* and the types after it are still synced.  syncAll itself never throws.
C24_OneResultPerType ==
    \A r \in ReturnedAll :
        /\ run[r].threw = "nothing"
        /\ Len(run[r].results) = Len(run[r].types)
        /\ \A i \in DOMAIN run[r].results :
              LET s == run[r].results[i] IN
              /\ s.dataType = run[r].types[i]
              /\ s.errors # <<>> => IsFailure(s)
              /\ s.errors = <<>> => Len(s.ops) \in { 0, 2 }

\* syncAll returned three results: the first type failed at its fetch, the second
\* at its upsert, the third was synced with items
C24_Witness ==
    \E r \in ReturnedAll :
        /\ run[r].types = DataTypes
        /\ Len(run[r].results) = 3
        /\ run[r].results[1].errors = <<FetchError>>
        /\ run[r].results[2].errors = <<DbError>>
        /\ run[r].results[3].errors = <<>>
        /\ run[r].results[3].itemsProcessed = 3

\* C26: a sync that fetched a non-empty list and did not fail made exactly one
\* query for the existing externalIds, of all fetched items, followed by exactly
\* one upsert of all fetched items, whatever the size of the list; a sync that
\* fetched an empty list made no database call and reports 0 processed, created
\* and updated items.
C26_OneQueryOneUpsert ==
    \A s \in AllResults :
        s.errors = <<>> =>
            IF Len(s.fetched) = 0
            THEN /\ s.ops = <<>>
                 /\ s.itemsProcessed = 0 /\ s.itemsCreated = 0 /\ s.itemsUpdated = 0
            ELSE /\ s.ops = << DbCall("getMany", s.fetched), DbCall("upsert", s.fetched) >>
                 /\ s.itemsProcessed = Len(s.fetched)

\* C26, for the syncs that syncAll reports as failed: no sync issues a second
\* query or a second upsert, or an upsert that no query preceded.
C26_NeverMoreThanOneEach ==
    \A s \in AllResults :
        s.errors # <<>> =>
            \/ s.ops = <<>>
            \/ \E list \in FetchedLists \ {<<>>} :
                  s.ops \in { << DbCall("getMany", list) >>,
                              << DbCall("getMany", list), DbCall("upsert", list) >> }

\* a sync of an empty list and a sync of three items have both returned
C26_Witness ==
    /\ \E s \in AllResults : s.errors = <<>> /\ Len(s.fetched) = 0
    /\ \E s \in AllResults : s.errors = <<>> /\ Len(s.fetched) = 3 /\ Len(s.ops) = 2

\* C25: in a sync of one data type, a fetched item is counted in itemsUpdated
\* exactly when its externalId was stored before the upsert of that sync, and in
\* itemsCreated otherwise.
C25_UpdatedIffStoredBeforeUpsert ==
    \A s \in AllResults :
        (s.errors = <<>> /\ Len(s.fetched) > 0) =>
            /\ s.itemsUpdated = CountIn(s.fetched, s.before)
            /\ s.itemsCreated = CountNotIn(s.fetched, s.before)

\* what the code computes: the classification follows the answer of the query
\* for the existing externalIds, which was given before the upsert was issued
C25_UpdatedIffFoundByQuery ==
    \A s \in AllResults :
        (s.errors = <<>> /\ Len(s.fetched) > 0) =>
            /\ s.existing \subseteq s.before
            /\ s.itemsUpdated = CountIn(s.fetched, s.existing)
            /\ s.itemsCreated = CountNotIn(s.fetched, s.existing)

\* a sync counted an item as created whose externalId another sync had stored
\* between this sync's query and its upsert
C25_Witness ==
    \E s \in AllResults :
        /\ s.errors = <<>>
        /\ s.itemsCreated > 0
        /\ \E i \in DOMAIN s.fetched : s.fetched[i] \in s.before \ s.existing

\* C27: getPropositions(skip, take) returns at most take items, which are the first
\* take items the repository returned for its request of take + 1 items from skip,
\* and hasMore is true exactly when the repository returned more than take items,
\* that is, when the table has a row after the returned page.
C27_Pagination ==
    page.calls > 0 =>
        /\ page.asked = page.take + 1
        /\ page.got = FindAndCount(table, page.skip, page.take + 1).items
        /\ Len(page.items) <= page.take
        /\ Len(page.items) = Min({ page.take, Len(page.got) })
        /\ \A i \in DOMAIN page.items : page.items[i] = page.got[i]
        /\ page.hasMore <=> Len(page.got) > page.take
        /\ page.hasMore <=> Len(table) > page.skip + page.take
        /\ page.total = Len(table)

\* a page of two rows was cut from the three rows the repository returned
C27_Witness ==
    /\ page.calls > 0
    /\ page.take = 2
    /\ Len(page.got) = 3
    /\ Len(page.items) = 2
    /\ page.hasMore

\* the fetches of p's call that failed: a rejected fetch, or a bootstrap response
\* without a CSRF cookie
FailedFetches(p) ==
    { i \in DOMAIN http[p] :
        \/ http[p][i].resp = NetworkFailure
        \/ IsGet(http[p][i]) /\ Answered(http[p][i]) /\ LacksCsrfCookie(http[p][i]) }
\* the positions in http[p] of the POSTs that were answered
AnsweredPosts(p) == { i \in DOMAIN http[p] : IsPost(http[p][i]) /\ Answered(http[p][i]) }
PostPositions(p) == { i \in DOMAIN http[p] : IsPost(http[p][i]) }

\* C28: every graphqlRequest call that has ended either failed with an error or
\* returned the body of the last POST it sent; a call with a failed fetch failed;
\* and the only response body that is not returned is that of a first POST that
\* was classified as a CSRF-class 403.
C28_NothingSwallowed ==
    \A p \in Callers :
        Ended(p) =>
            /\ result[p].kind \in { "threw", "returned" }
            /\ FailedFetches(p) # {} => result[p].kind = "threw"
            /\ result[p].kind = "returned" =>
                  /\ PostPositions(p) # {}
                  /\ LET l == CHOOSE i \in PostPositions(p) :
                                  \A j \in PostPositions(p) : j <= i
                     IN  /\ Answered(http[p][l])
                         /\ result[p].body = http[p][l].resp.body
            /\ \A i \in AnsweredPosts(p) :
                  \/ result[p].kind = "returned" /\ \A j \in PostPositions(p) : j <= i
                  \/ /\ \A j \in PostPositions(p) : i <= j
                     /\ Csrf403(http[p][i])
                     /\ IsCsrfError(http[p][i].resp)

\* a call's first POST got a CSRF-class 403, whose body was dropped, and the call
\* returned the body of its second POST, a 403 again
C28_Witness ==
    \E p \in Callers :
        /\ Ended(p)
        /\ result[p].kind = "returned"
        /\ Len(PostsOf(p)) = 2
        /\ Csrf403(PostsOf(p)[1])
        /\ PostsOf(p)[2].resp.status = 403
        /\ result[p].body = PostsOf(p)[2].resp.body

\* the position in http[p] of the call's first POST
FirstPost(p) == CHOOSE i \in PostPositions(p) : \A j \in PostPositions(p) : i <= j
\* the call went on after the answer to its first POST
Retried(p) == FirstPost(p) < Len(http[p])
\* an error message of the body contains 'CSRF': the top-level message or the
\* message of an entry of errors
SaysCsrfAnywhere(body) ==
    \/ SaysCsrf(body)
    \/ body.errors # Null /\ \E i \in DOMAIN body.errors : Includes(body.errors[i], CsrfWord)

\* C29: graphqlRequest retries exactly when the first response has status 403
\* and an error message of its body contains 'CSRF', wherever in the body that
\* error message is carried.
C29_RetriesEveryCsrf403 ==
    \A p \in Callers :
        (Ended(p) /\ PostPositions(p) # {} /\ Answered(http[p][FirstPost(p)])) =>
            LET resp == http[p][FirstPost(p)].resp IN
            Retried(p) <=> (resp.status = 403 /\ SaysCsrfAnywhere(resp.body))

\* what the code does: the retry is made exactly when the first response has
\* status 403 and the top-level message member of its body contains 'CSRF'
C29_RetriesOnTopLevelMessage ==
    \A p \in Callers :
        (Ended(p) /\ PostPositions(p) # {} /\ Answered(http[p][FirstPost(p)])) =>
            LET resp == http[p][FirstPost(p)].resp IN
            Retried(p) <=> (resp.status = 403 /\ SaysCsrf(resp.body))

\* in this step the await of a POST of p settled
PostSettles(p) == pc[p] \in { "awaitPost", "awaitRetry" } /\ pc'[p] # pc[p]
\* in this step p's first POST was answered with a CSRF-class 403
FirstPostGotCsrf403(p) == pc[p] = "awaitPost" /\ Csrf403(http'[p][Len(http[p])])
\* in this step a member of the cached pair was dropped
CacheDropped ==
    \/ csrfToken # Null /\ csrfToken' = Null
    \/ csrfCookie # Null /\ csrfCookie' = Null

\* C30: a populated cache becomes empty only in a step that runs clearCsrfToken:
\* a call of it by test code, or graphqlRequest's call of it on a CSRF-class 403
\* to its first POST; and a POST that settles in any other way (200, non-CSRF
\* 403, any other status, any answer to the retry, a transport failure) leaves the
\* cached pair as it was.
C30_ReactiveInvalidation ==
    [][ /\ CacheDropped =>
            /\ CacheNow' = NoPair
            /\ \/ nClears' = nClears + 1
               \/ \E p \in Callers : FirstPostGotCsrf403(p)
        /\ \A p \in Callers :
             (PostSettles(p) /\ ~FirstPostGotCsrf403(p)) => CacheNow' = CacheNow
      ]_vars

\* a call ended on a non-CSRF 403 and the pair its POST carried is still cached
C30_Witness ==
    \E p \in Callers :
        /\ Ended(p)
        /\ Len(PostsOf(p)) = 1
        /\ Answered(PostsOf(p)[1])
        /\ PostsOf(p)[1].resp.status = 403
        /\ ~Csrf403(PostsOf(p)[1])
        /\ CacheNow # NoPair
        /\ CacheNow = csrf[p]

\* C31: in every reachable state the cached token and the cached cookie are both
\* absent or both present, and when present the cookie is 'csrf-token=' followed
\* by the token.
C31_CacheConsistent ==
    \/ csrfToken = Null /\ csrfCookie = Null
    \/ /\ csrfToken # Null
       /\ csrfCookie # Null
       /\ csrfCookie = CsrfCookiePrefix \o csrfToken

\* the cache was overwritten: it holds a pair other than the one a caller still
\* holds from its own bootstrap
C31_Witness ==
    /\ csrfToken # Null
    /\ \E p \in Callers :
          /\ pc[p] \in { "post", "awaitPost" }
          /\ csrf[p].token # Null
          /\ csrf[p].token # csrfToken

\* the pair fetchCsrfToken makes of the Set-Cookie value sc
PairOf(sc) == [token |-> CsrfMatch(sc), cookie |-> CsrfCookiePrefix \o CsrfMatch(sc)]

\* C32: a graphqlRequest call that sent two POSTs sent, between them, exactly one
\* bootstrap GET, after a CSRF-class 403 to the first POST, and its second POST
\* carries the pair of the answer to that GET, under every interleaving with
\* other calls and with calls of clearCsrfToken.
C32_RetryUsesOwnBootstrap ==
    \A p \in Callers :
        Cardinality(PostPositions(p)) >= 2 =>
            LET i == FirstPost(p) IN
            /\ PostPositions(p) = { i, i + 2 }
            /\ Csrf403(http[p][i])
            /\ IsGet(http[p][i + 1])
            /\ Answered(http[p][i + 1])
            /\ http[p][i + 1].resp.setCookie # Null
            /\ Carried(http[p][i + 2]) = PairOf(http[p][i + 1].resp.setCookie)

\* p's retry POST is in flight with the pair of p's own bootstrap while the cache
\* holds something else (it was cleared or overwritten after p's bootstrap) and
\* another call has made a bootstrap of its own
C32_Witness ==
    \E p \in Callers, q \in Callers :
        /\ p # q
        /\ pc[p] = "awaitRetry"
        /\ Cardinality(PostPositions(p)) = 2
        /\ Carried(http[p][Len(http[p])]) # CacheNow
        /\ \E n \in DOMAIN http[q] : IsGet(http[q][n]) /\ Answered(http[q][n])

\* what fetchCsrfToken throws on the answer resp
ErrorOf(resp) == FetchCsrfTokenOutcome(resp).threw
\* the bootstrap GETs p's call sent after a POST and that failed
FailedRetryGets(p) ==
    { i \in DOMAIN http[p] :
        /\ i >= 2
        /\ IsGet(http[p][i])
        /\ IsPost(http[p][i - 1])
        /\ http[p][i].resp # Pending
        /\ ErrorOf(http[p][i].resp) # "nothing" }
RetryBootstrapFailed(p) == FailedRetryGets(p) # {}

C33_FailedWithThatError ==
    \A p \in Callers : \A i \in FailedRetryGets(p) :
        /\ i = Len(http[p])
        /\ Ended(p)
        /\ result[p] = Threw(ErrorOf(http[p][i].resp))
        /\ Cardinality(PostPositions(p)) = 1
        /\ CacheNow = NoPair

C33_NextCallBootstraps ==
    \A p \in Callers :
        (RetryBootstrapFailed(p) /\ nCalls'[p] = nCalls[p] + 1) =>
            /\ http'[p] = <<GetRequest>>
            /\ pc'[p] = "getCsrf"

\* the step in which a re-bootstrap fails writes nothing to the cache, whatever
\* other calls have put there
C33_FailureWritesNothing ==
    [][ \A p \in Callers :
          (pc[p] = "retryGetCsrf" /\ pc'[p] = "done") => CacheNow' = CacheNow ]_vars

\* C33: when the bootstrap on the retry path fails (transport error, no
\* Set-Cookie header, no csrf-token cookie), graphqlRequest fails with that error
\* and has sent no second POST, the cache is empty, and the next call begins with
\* a bootstrap GET.
C33_RetryBootstrapFailureFatal ==
    []C33_FailedWithThatError /\ [][C33_NextCallBootstraps]_vars

\* a call ended at the transport failure of its re-bootstrap
C33_Witness ==
    \E p \in Callers :
        /\ RetryBootstrapFailed(p)
        /\ http[p][Len(http[p])].resp = NetworkFailure
        /\ result[p] = Threw("NetworkError")
        /\ nCalls[p] < MaxCalls

CsrfHeaders == { "Cookie", "x-csrf-token" }

\* C34: the second POST of a graphqlRequest call has the method, the body (query
\* and variables) and the header names of the first, every header the caller
\* supplied has the caller's value in both, and no header other than Cookie and
\* x-csrf-token differs between the two.
C34_RetryResendsSameRequest ==
    \A p \in Callers :
        Cardinality(PostPositions(p)) >= 2 =>
            LET first == PostsOf(p)[1]
                second == PostsOf(p)[2]
            IN  /\ second.method = first.method
                /\ second.body = first.body
                /\ second.body = StringifyBody(args[p].query, args[p].variables)
                /\ DOMAIN second.headers = DOMAIN first.headers
                /\ \A k \in DOMAIN first.headers \ CsrfHeaders :
                      second.headers[k] = first.headers[k]
                /\ \A k \in DOMAIN args[p].headers :
                      /\ first.headers[k] = args[p].headers[k]
                      /\ second.headers[k] = args[p].headers[k]

\* a call with a bearer token sent its retry: both POSTs carry the Authorization
\* header and their Cookie headers differ
C34_Witness ==
    \E p \in Callers :
        /\ Cardinality(PostPositions(p)) = 2
        /\ "Authorization" \in DOMAIN args[p].headers
        /\ "Authorization" \in DOMAIN PostsOf(p)[1].headers
        /\ "Authorization" \in DOMAIN PostsOf(p)[2].headers
        /\ PostsOf(p)[1].headers["Authorization"] = BearerT1
        /\ PostsOf(p)[2].headers["Authorization"] = BearerT1
        /\ PostsOf(p)[1].headers["Cookie"] # PostsOf(p)[2].headers["Cookie"]

\* C35: waitFor returns normally only after an evaluation of the condition
\* returned true; it throws 'Condition not met within <timeout>ms' only when the
\* timeout has elapsed; evaluations of the condition never overlap; and at least
\* one evaluation happens before it throws.
C35_WaitForContract ==
    /\ wait.inFlight <= 1
    /\ wait.pc = "returned" => wait.lastValue = "true" /\ wait.evaluations >= 1
    /\ wait.pc = "threw" =>
          /\ wait.evaluations >= 1
          /\ \/ wait.error = <<ConditionFailed>> /\ wait.lastValue = "rejects"
             \/ wait.error = NotMet(wait.timeoutMs) /\ wait.elapsed >= wait.timeoutMs

\* what the code guarantees: the same without the evaluation before the throw,
\* which is made only if the timeout has not elapsed at the first test of the loop
C35_ThrowsOnlyAfterTimeout ==
    /\ wait.inFlight <= 1
    /\ wait.pc = "returned" => wait.lastValue = "true" /\ wait.evaluations >= 1
    /\ wait.pc = "threw" =>
          \/ wait.error = <<ConditionFailed>> /\ wait.lastValue = "rejects"
          \/ wait.error = NotMet(wait.timeoutMs) /\ wait.elapsed >= wait.timeoutMs

\* C36: globalSetup returns normally only if, in one and the same polling round,
\* the health check of every required service (users, documents, knowledge,
\* region, api) succeeded; a service that was ready in an earlier round but not
\* in the current one does not count.
C36_AllReadyInOneRound ==
    setup.pc = "returned" =>
        /\ setup.rounds >= 1
        /\ setup.ready = { "users", "documents", "knowledge", "region", "api" }
        /\ setup.ready = RequiredServices

\* globalSetup returned in its second round, after a round in which some services
\* were ready and others were not
C36_Witness ==
    /\ setup.pc = "returned"
    /\ setup.rounds = 2
    /\ setup.earlier # {}
    /\ setup.earlier # RequiredServices

\* C37: whenever globalSetup throws 'Backend services not running', the list of
\* missing services names at least one required service, and every service it
\* names failed its health check in the final check.
C37_MissingListNotEmpty ==
    (setup.pc = "threw" /\ setup.error = BackendError) =>
        /\ setup.missing # {}
        /\ setup.missing \subseteq RequiredServices
        /\ \A s \in setup.missing : s \notin setup.ready

\* what the code guarantees: the services named are exactly those that failed the
\* final check, and there may be none
C37_MissingAreTheFailed ==
    (setup.pc = "threw" /\ setup.error = BackendError) =>
        setup.missing = RequiredServices \ setup.ready

====
